---- MODULE Spec2Model ----
(***************************************************************************)
(* easy-fs on-disk layout engine (easy-fs/src/layout.rs): the DiskInode    *)
(* block-addressing tree (direct + indirect1/2/3), its size accounting,    *)
(* growth, truncation and byte I/O, over a block device of raw bytes.      *)
(***************************************************************************)
EXTENDS Integers, Sequences, FiniteSets, TLC

(* ------------------------------ bounds --------------------------------- *)
\* Block size in bytes, scaled down from the filesystem-wide constant so
\* that all four tiers are reachable; N = BLOCK_SZ / 4 pointers per block.
BLOCK_SZ == 8
\* Highest block id of the device; block ids 0..MaxBlockId exist.
MaxBlockId == 53
\* Number of times the inode may be grown from empty (its lives).
MaxLives == 1
\* Number of write_at calls in one behaviour.
MaxWrites == 1
\* Width in bits of the u32 fields, scaled down with the block size; sizes
\* are 0..U32_MAX and the largest addressable file lies well inside.
U32_BITS == 9
\* log2 of the page size, scaled down; a page is PAGE_SIZE bytes.
PAGE_SIZE_BITS == 2
\* Number of ranges sys_mmap may record in one behaviour.
MaxMaps == 2
\* Width in bits of usize, scaled down with the page size; addresses and
\* lengths are 0..USIZE_MAX and the mapped area lies well inside.
USIZE_BITS == 7

(* ---------------------------- constants -------------------------------- *)
EFS_MAGIC == 998244353
INODE_DIRECT_COUNT == 27
NAME_LENGTH_LIMIT == 27
DIRENT_SZ == 32
PAGE_SIZE == 2 ^ PAGE_SIZE_BITS
\* Base virtual address for mmap: page-aligned, scaled down with the page.
MMAP_AREA_BASE == 4 * PAGE_SIZE
INODE_INDIRECT1_COUNT == BLOCK_SZ \div 4
INODE_INDIRECT2_COUNT == INODE_INDIRECT1_COUNT * INODE_INDIRECT1_COUNT
INODE_INDIRECT3_COUNT == INODE_INDIRECT2_COUNT * INODE_INDIRECT1_COUNT
DIRECT_BOUND == INODE_DIRECT_COUNT
INDIRECT1_BOUND == DIRECT_BOUND + INODE_INDIRECT1_COUNT
INDIRECT2_BOUND == INDIRECT1_BOUND + INODE_INDIRECT2_COUNT

\* Largest number of data blocks the tree can address, and the sizes in range.
MaxDataBlocks == INDIRECT2_BOUND + INODE_INDIRECT3_COUNT
MaxSize == MaxDataBlocks * BLOCK_SZ

Min(a, b) == IF a < b THEN a ELSE b

\* u32 arithmetic: the values, and a result reduced to the width.
U32_MOD == 2 ^ U32_BITS
U32_MAX == U32_MOD - 1

\* usize arithmetic likewise.
USIZE_MOD == 2 ^ USIZE_BITS
USIZE_MAX == USIZE_MOD - 1

(* --------------------- block device and block cache -------------------- *)
\* A block is BLOCK_SZ raw bytes.  An IndirectBlock is the same bytes viewed
\* as little-endian u32 words, a DataBlock as the bytes themselves.
ZeroBlock == [k \in 1..BLOCK_SZ |-> 0]

\* get_block_cache(id, device): the block exists only if the device has it.
InDevice(id) == id \in 0..MaxBlockId

\* indirect_block[i] read through the cache
ReadWord(d, id, i) ==
    d[id][4*i + 1] + 256 * d[id][4*i + 2] + 65536 * d[id][4*i + 3]
        + 16777216 * d[id][4*i + 4]

\* indirect_block[i] = v through the cache
WriteWord(d, id, i, v) ==
    [d EXCEPT ![id] = [k \in 1..BLOCK_SZ |->
        IF k = 4*i + 1 THEN v % 256
        ELSE IF k = 4*i + 2 THEN (v \div 256) % 256
        ELSE IF k = 4*i + 3 THEN (v \div 65536) % 256
        ELSE IF k = 4*i + 4 THEN (v \div 16777216) % 256
        ELSE @[k]]]

(* ------------------------- size / block accounting --------------------- *)
\* size + BLOCK_SZ as u32 - 1 leaves the u32 range: a build with overflow
\* checks panics there, a build without them wraps.
_data_blocks_overflows(sz) == sz + BLOCK_SZ - 1 > U32_MAX

\* A ceiling computed as floor + 1.
_data_blocks_floor1(sz) == sz \div BLOCK_SZ + 1

\* (size + BLOCK_SZ as u32 - 1) / BLOCK_SZ as u32, in u32
_data_blocks(sz) == ((sz + BLOCK_SZ - 1) % U32_MOD) \div BLOCK_SZ

\* total_blocks without the cap of the indirect2 sub-blocks at N.
total_blocks_nocap(sz) ==
    LET data_blocks == _data_blocks(sz)
        t1 == IF data_blocks > INODE_DIRECT_COUNT THEN 1 ELSE 0
        t2 == IF data_blocks > INDIRECT1_BOUND
              THEN 1 + (data_blocks - INDIRECT1_BOUND + INODE_INDIRECT1_COUNT - 1)
                           \div INODE_INDIRECT1_COUNT
              ELSE 0
        t3 == IF data_blocks > INDIRECT2_BOUND
              THEN LET remaining == data_blocks - INDIRECT2_BOUND
                   IN 1 + (remaining + INODE_INDIRECT2_COUNT - 1) \div INODE_INDIRECT2_COUNT
                        + (remaining + INODE_INDIRECT1_COUNT - 1) \div INODE_INDIRECT1_COUNT
              ELSE 0
    IN data_blocks + t1 + t2 + t3

total_blocks(sz) ==
    LET data_blocks == _data_blocks(sz)
        t1 == IF data_blocks > INODE_DIRECT_COUNT THEN 1 ELSE 0
        t2 == IF data_blocks > INDIRECT1_BOUND
              THEN 1 + Min((data_blocks - INDIRECT1_BOUND + INODE_INDIRECT1_COUNT - 1)
                               \div INODE_INDIRECT1_COUNT,
                           INODE_INDIRECT1_COUNT)
              ELSE 0
        t3 == IF data_blocks > INDIRECT2_BOUND
              THEN LET remaining == data_blocks - INDIRECT2_BOUND
                       level2_extra == (remaining + INODE_INDIRECT2_COUNT - 1)
                                           \div INODE_INDIRECT2_COUNT
                       level3_extra == (remaining + INODE_INDIRECT1_COUNT - 1)
                                           \div INODE_INDIRECT1_COUNT
                   IN 1 + level2_extra + level3_extra
              ELSE 0
    IN data_blocks + t1 + t2 + t3

\* assert!(new_size >= self.size) in blocks_num_needed
blocks_num_needed_assert(cur_size, new_size) == new_size >= cur_size

\* The u32 subtraction of blocks_num_needed leaves the range below 0.
blocks_num_needed_underflows(cur_size, new_size) ==
    total_blocks(new_size) < total_blocks(cur_size)

\* Self::total_blocks(new_size) - Self::total_blocks(self.size), in u32; the
\* assertion and the overflow checks are those of the two definitions above.
blocks_num_needed(cur_size, new_size) ==
    (total_blocks(new_size) - total_blocks(cur_size)) % U32_MOD

decompose2(id) == <<id \div INODE_INDIRECT1_COUNT, id % INODE_INDIRECT1_COUNT>>

(* ------------------------------ addressing ----------------------------- *)
\* One locked read of entry i of index block blk; a block the device does not
\* have, or an entry outside the array, is a fault.
Lookup(d, blk, i) ==
    IF ~InDevice(blk) THEN [fault |-> "device", id |-> 0]
    ELSE IF i >= INODE_INDIRECT1_COUNT THEN [fault |-> "index", id |-> 0]
    ELSE [fault |-> "none", id |-> ReadWord(d, blk, i)]

get_block_id(ino, d, inner_id) ==
    IF inner_id < INODE_DIRECT_COUNT
    THEN [fault |-> "none", id |-> ino.direct[inner_id]]
    ELSE IF inner_id < INDIRECT1_BOUND
    THEN Lookup(d, ino.indirect1, inner_id - INODE_DIRECT_COUNT)
    ELSE IF inner_id < INDIRECT2_BOUND
    THEN LET last == inner_id - INDIRECT1_BOUND
             l1 == Lookup(d, ino.indirect2, last \div INODE_INDIRECT1_COUNT)
         IN IF l1.fault # "none" THEN l1
            ELSE Lookup(d, l1.id, last % INODE_INDIRECT1_COUNT)
    ELSE LET last == inner_id - INDIRECT2_BOUND
             l1 == Lookup(d, ino.indirect3, last \div INODE_INDIRECT2_COUNT)
             l2 == Lookup(d, l1.id,
                          (last % INODE_INDIRECT2_COUNT) \div INODE_INDIRECT1_COUNT)
         IN IF l1.fault # "none" THEN l1
            ELSE IF l2.fault # "none" THEN l2
            ELSE Lookup(d, l2.id,
                        (last % INODE_INDIRECT2_COUNT) % INODE_INDIRECT1_COUNT)

(* -------------------------------- growth ------------------------------- *)
\* The running state of increase_size: the inode fields, the device, the
\* iterator over new_blocks, current_blocks / total_blocks, and the order in
\* which ids were taken (kind: data or index block; lb: the logical block an
\* id taken as a data block becomes, -1 for an index block).
\* held / peak: the block-cache locks held now, and the most held at once.
\* get_block_cache(id).lock() up to the end of the closure of modify / read.
Max(a, b) == IF a > b THEN a ELSE b

Lock(g) == [g EXCEPT !.held = @ + 1, !.peak = Max(@, g.held + 1)]

Unlock(g) == IF g.fault # "none" THEN g ELSE [g EXCEPT !.held = @ - 1]

\* new_blocks.next().unwrap() with the id installed by `put`.
Take(g, kind, lb) ==
    [g EXCEPT !.ids = Tail(@),
              !.log = Append(@, [id |-> Head(g.ids), kind |-> kind, lb |-> lb])]

\* The direct loop with unwrap_or_default() in place of unwrap().
RECURSIVE fill_direct_or_default(_)
fill_direct_or_default(g) ==
    IF g.fault # "none" \/ ~(g.cur < Min(g.tot, INODE_DIRECT_COUNT)) THEN g
    ELSE IF g.ids = <<>>
    THEN fill_direct_or_default([g EXCEPT !.direct[g.cur] = 0, !.cur = g.cur + 1])
    ELSE fill_direct_or_default([Take(g, "data", g.cur) EXCEPT
                                     !.direct[g.cur] = Head(g.ids), !.cur = g.cur + 1])

RECURSIVE fill_direct(_)
fill_direct(g) ==
    IF g.fault # "none" \/ ~(g.cur < Min(g.tot, INODE_DIRECT_COUNT)) THEN g
    ELSE IF g.ids = <<>> THEN [g EXCEPT !.fault = "unwrap"]
    ELSE fill_direct([Take(g, "data", g.cur) EXCEPT
                          !.direct[g.cur] = Head(g.ids), !.cur = g.cur + 1])

alloc_indirect1(g) ==
    IF g.fault # "none" THEN g
    ELSE IF g.cur = INODE_DIRECT_COUNT
    THEN IF g.ids = <<>> THEN [g EXCEPT !.fault = "unwrap"]
         ELSE [Take(g, "index", -1) EXCEPT
                   !.indirect1 = Head(g.ids),
                   !.cur = g.cur - INODE_DIRECT_COUNT,
                   !.tot = g.tot - INODE_DIRECT_COUNT]
    ELSE [g EXCEPT !.cur = g.cur - INODE_DIRECT_COUNT,
                   !.tot = g.tot - INODE_DIRECT_COUNT]

\* The while loop inside the lock of the indirect1 block.
RECURSIVE fill_indirect1_loop(_)
fill_indirect1_loop(g) ==
    IF g.fault # "none" THEN g
    ELSE IF ~(g.cur < Min(g.tot, INODE_INDIRECT1_COUNT)) THEN g
    ELSE IF g.ids = <<>> THEN [g EXCEPT !.fault = "unwrap"]
    ELSE fill_indirect1_loop([Take(g, "data", DIRECT_BOUND + g.cur) EXCEPT
                                  !.dev = WriteWord(g.dev, g.indirect1, g.cur, Head(g.ids)),
                                  !.cur = g.cur + 1])

fill_indirect1(g) ==
    IF g.fault # "none" THEN g
    ELSE IF ~InDevice(g.indirect1) THEN [g EXCEPT !.fault = "device"]
    ELSE Unlock(fill_indirect1_loop(Lock(g)))

\* A root allocated whenever the tier is entered, also when it exists.
alloc_indirect2_root_unset_always(cur) == TRUE

\* if current_blocks == INODE_INDIRECT1_COUNT: the indirect2 root is unset.
alloc_indirect2_root_unset(cur) == cur = INODE_INDIRECT1_COUNT

alloc_indirect2(g) ==
    IF g.fault # "none" THEN g
    ELSE IF alloc_indirect2_root_unset(g.cur)
    THEN IF g.ids = <<>> THEN [g EXCEPT !.fault = "unwrap"]
         ELSE [Take(g, "index", -1) EXCEPT
                   !.indirect2 = Head(g.ids),
                   !.cur = g.cur - INODE_INDIRECT1_COUNT,
                   !.tot = g.tot - INODE_INDIRECT1_COUNT]
    ELSE [g EXCEPT !.cur = g.cur - INODE_INDIRECT1_COUNT,
                   !.tot = g.tot - INODE_INDIRECT1_COUNT]

\* The sub-block allocated one entry late.
fill_indirect2_allocs_sub_late(b0) == b0 = 1

\* if b0 == 0: a sub-block is allocated at the start of a group.
fill_indirect2_allocs_sub(b0) == b0 = 0

\* The loop over (a0, b0) -> (a1, b1) inside the lock of the indirect2 block.
RECURSIVE fill_indirect2_loop(_, _, _, _, _)
fill_indirect2_loop(g, a0, b0, a1, b1) ==
    IF g.fault # "none" \/ ~((a0 < a1) \/ (a0 = a1 /\ b0 < b1)) THEN g
    ELSE LET g1 == IF fill_indirect2_allocs_sub(b0)
                   THEN IF g.ids = <<>> THEN [g EXCEPT !.fault = "unwrap"]
                        ELSE [Take(g, "index", -1) EXCEPT
                                  !.dev = WriteWord(g.dev, g.indirect2, a0, Head(g.ids))]
                   ELSE g
             sub == ReadWord(g1.dev, g1.indirect2, a0)
             g2 == IF g1.fault # "none" THEN g1
                   ELSE IF ~InDevice(sub) THEN [g1 EXCEPT !.fault = "device"]
                   ELSE IF g1.ids = <<>> THEN [Lock(g1) EXCEPT !.fault = "unwrap"]
                   ELSE Unlock([Take(Lock(g1), "data", INDIRECT1_BOUND + g1.cur) EXCEPT
                                    !.dev = WriteWord(g1.dev, sub, b0, Head(g1.ids)),
                                    !.cur = g1.cur + 1])
         IN IF b0 + 1 = INODE_INDIRECT1_COUNT
            THEN fill_indirect2_loop(g2, a0 + 1, 0, a1, b1)
            ELSE fill_indirect2_loop(g2, a0, b0 + 1, a1, b1)

fill_indirect2(g) ==
    IF g.fault # "none" THEN g
    ELSE IF ~InDevice(g.indirect2) THEN [g EXCEPT !.fault = "device"]
    ELSE LET p0 == decompose2(g.cur)
             p1 == decompose2(Min(g.tot, INODE_INDIRECT2_COUNT))
         IN Unlock(fill_indirect2_loop(Lock(g), p0[1], p0[2], p1[1], p1[2]))

alloc_indirect3(g) ==
    IF g.fault # "none" THEN g
    ELSE IF g.cur = INODE_INDIRECT2_COUNT
    THEN IF g.ids = <<>> THEN [g EXCEPT !.fault = "unwrap"]
         ELSE [Take(g, "index", -1) EXCEPT
                   !.indirect3 = Head(g.ids),
                   !.cur = g.cur - INODE_INDIRECT2_COUNT,
                   !.tot = g.tot - INODE_INDIRECT2_COUNT]
    ELSE [g EXCEPT !.cur = g.cur - INODE_INDIRECT2_COUNT,
                   !.tot = g.tot - INODE_INDIRECT2_COUNT]

\* An off-by-one in the comparison with src_leaf.
build_tree_installs_strict(cur_leaf, src_leaf) == cur_leaf > src_leaf

\* Whether build_tree installs a fresh child at leaf position cur_leaf.
build_tree_installs(cur_leaf, src_leaf) == cur_leaf >= src_leaf

\* build_tree returns [g, leaf]: the state and the running leaf counter.
\* The while loop of one level runs inside the lock of block_id (build_loop).
RECURSIVE build_tree(_, _, _, _, _, _, _)
RECURSIVE build_loop(_, _, _, _, _, _, _, _)
build_tree(g, block_id, cur_leaf, src_leaf, dst_leaf, cur_depth, dst_depth) ==
    IF cur_depth = dst_depth THEN [g |-> g, leaf |-> cur_leaf + 1]
    ELSE IF g.fault # "none" THEN [g |-> g, leaf |-> cur_leaf]
    ELSE IF ~InDevice(block_id)
    THEN [g |-> [g EXCEPT !.fault = "device"], leaf |-> cur_leaf]
    ELSE LET r == build_loop(Lock(g), block_id, 0, cur_leaf, src_leaf, dst_leaf,
                             cur_depth, dst_depth)
         IN [g |-> Unlock(r.g), leaf |-> r.leaf]

build_loop(g, block_id, i, cur_leaf, src_leaf, dst_leaf, cur_depth, dst_depth) ==
    IF g.fault # "none" \/ ~(i < INODE_INDIRECT1_COUNT /\ cur_leaf < dst_leaf)
    THEN [g |-> g, leaf |-> cur_leaf]
    ELSE LET kind == IF cur_depth + 1 = dst_depth THEN "data" ELSE "index"
             lb   == IF cur_depth + 1 = dst_depth THEN INDIRECT2_BOUND + cur_leaf ELSE -1
             g1 == IF build_tree_installs(cur_leaf, src_leaf)
                   THEN IF g.ids = <<>> THEN [g EXCEPT !.fault = "unwrap"]
                        ELSE [Take(g, kind, lb) EXCEPT
                                  !.dev = WriteWord(g.dev, block_id, i, Head(g.ids))]
                   ELSE g
             r == build_tree(g1, ReadWord(g1.dev, block_id, i), cur_leaf, src_leaf,
                             dst_leaf, cur_depth + 1, dst_depth)
         IN IF g1.fault # "none" THEN [g |-> g1, leaf |-> cur_leaf]
            ELSE build_loop(r.g, block_id, i + 1, r.leaf, src_leaf, dst_leaf,
                            cur_depth, dst_depth)

\* increase_size(new_size, new_blocks, device) on inode ino and device d.
\* The result keeps the inode fields, the device, the ids left in the
\* iterator, the consumption log and the fault ("none" when it returned).
increase_size(ino, d, new_size, new_blocks) ==
    LET g0 == [size |-> new_size, direct |-> ino.direct,
               indirect1 |-> ino.indirect1, indirect2 |-> ino.indirect2,
               indirect3 |-> ino.indirect3, dev |-> d, ids |-> new_blocks,
               log |-> <<>>, fault |-> "none", held |-> 0, peak |-> 0,
               cur |-> _data_blocks(ino.size), tot |-> _data_blocks(new_size)]
        g1 == fill_direct(g0)
    IN IF g1.fault # "none" \/ ~(g1.tot > INODE_DIRECT_COUNT) THEN g1
       ELSE LET g2 == fill_indirect1(alloc_indirect1(g1))
            IN IF g2.fault # "none" \/ ~(g2.tot > INODE_INDIRECT1_COUNT) THEN g2
               ELSE LET g3 == fill_indirect2(alloc_indirect2(g2))
                    IN IF g3.fault # "none" \/ ~(g3.tot > INODE_INDIRECT2_COUNT) THEN g3
                       ELSE LET g4 == alloc_indirect3(g3)
                            IN IF g4.fault # "none" THEN g4
                               ELSE build_tree(g4, g4.indirect3, 0, g4.cur, g4.tot, 0, 3).g

(* ------------------------------ truncation ----------------------------- *)
\* Entries lo..hi-1 of index block blk, in order.
Entries(d, blk, lo, hi) ==
    IF hi <= lo THEN <<>> ELSE [k \in 1..(hi - lo) |-> ReadWord(d, blk, lo + k - 1)]

\* collect_tree_blocks returns [v, leaf, fault, peak]; peak is the most locks
\* held at once: each level keeps the lock of its block while it calls the
\* next level, so the block of depth k is locked under k other locks.
RECURSIVE collect_tree_blocks(_, _, _, _, _, _, _)
RECURSIVE collect_loop(_, _, _, _, _, _, _, _)
collect_tree_blocks(d, collected, block_id, cur_leaf, max_leaf, cur_depth, dst_depth) ==
    IF cur_depth = dst_depth
    THEN [v |-> collected, leaf |-> cur_leaf + 1, fault |-> "none", peak |-> 0]
    ELSE IF ~InDevice(block_id)
    THEN [v |-> collected, leaf |-> cur_leaf, fault |-> "device", peak |-> 0]
    ELSE [collect_loop(d, collected, block_id, 0, cur_leaf, max_leaf, cur_depth, dst_depth)
             EXCEPT !.peak = Max(@, cur_depth + 1)]

collect_loop(d, collected, block_id, i, cur_leaf, max_leaf, cur_depth, dst_depth) ==
    IF ~(i < INODE_INDIRECT1_COUNT /\ cur_leaf < max_leaf)
    THEN [v |-> collected, leaf |-> cur_leaf, fault |-> "none", peak |-> 0]
    ELSE LET child == ReadWord(d, block_id, i)
             r == collect_tree_blocks(d, Append(collected, child), child, cur_leaf,
                                      max_leaf, cur_depth + 1, dst_depth)
         IN IF r.fault # "none" THEN r
            ELSE [collect_loop(d, r.v, block_id, i + 1, r.leaf, max_leaf,
                               cur_depth, dst_depth)
                     EXCEPT !.peak = Max(@, r.peak)]

\* The full sub-blocks of indirect2 (entries 0..a1-1), each followed by all
\* of its entries.  Returns [v, fault, peak]: it runs inside the lock of the
\* indirect2 block and locks each sub-block under it.
RECURSIVE clear_indirect2_full(_, _, _, _, _)
clear_indirect2_full(d, v, blk, k, a1) ==
    IF k >= Min(a1, INODE_INDIRECT1_COUNT) THEN [v |-> v, fault |-> "none", peak |-> 1]
    ELSE LET entry == ReadWord(d, blk, k)
         IN IF ~InDevice(entry)
            THEN [v |-> Append(v, entry), fault |-> "device", peak |-> 1]
            ELSE [clear_indirect2_full(d,
                      Append(v, entry) \o Entries(d, entry, 0, INODE_INDIRECT1_COUNT),
                      blk, k + 1, a1)
                     EXCEPT !.peak = 2]

\* The direct loop without the store of 0.
clear_direct_keep(dir, nd) == dir

\* The direct loop of clear_size: the first nd slots are pushed and zeroed.
clear_direct(dir, nd) ==
    [k \in 0..(INODE_DIRECT_COUNT - 1) |-> IF k < nd THEN 0 ELSE dir[k]]

\* assert!(data_blocks <= INODE_INDIRECT3_COUNT) in clear_size
clear_size_assert(data_blocks) == data_blocks <= INODE_INDIRECT3_COUNT

\* clear_size(device) on inode ino: the inode fields afterwards, the returned
\* vector v and the fault ("none" when it returned).  The device is only read.
clear_size(ino, d) ==
    LET db0 == _data_blocks(ino.size)
        nd == Min(db0, INODE_DIRECT_COUNT)
        c0 == [size |-> 0,
               direct |-> clear_direct(ino.direct, nd),
               indirect1 |-> ino.indirect1, indirect2 |-> ino.indirect2,
               indirect3 |-> ino.indirect3,
               v |-> IF nd = 0 THEN <<>> ELSE [k \in 1..nd |-> ino.direct[k - 1]],
               fault |-> "none", peak |-> 0]
    IN IF ~(db0 > INODE_DIRECT_COUNT) THEN c0
       ELSE
       LET db1 == db0 - INODE_DIRECT_COUNT
           v1 == Append(c0.v, ino.indirect1)
       IN IF ~InDevice(ino.indirect1) THEN [c0 EXCEPT !.v = v1, !.fault = "device"]
          ELSE
          LET v2 == v1 \o Entries(d, ino.indirect1, 0, Min(db1, INODE_INDIRECT1_COUNT))
              c2 == [c0 EXCEPT !.v = v2, !.indirect1 = 0, !.peak = 1]
          IN IF ~(db1 > INODE_INDIRECT1_COUNT) THEN c2
             ELSE
             LET db2 == db1 - INODE_INDIRECT1_COUNT
                 v3 == Append(v2, ino.indirect2)
                 p1 == decompose2(Min(db2, INODE_INDIRECT2_COUNT))
                 a1 == p1[1]
                 b1 == p1[2]
             IN IF ~InDevice(ino.indirect2) THEN [c2 EXCEPT !.v = v3, !.fault = "device"]
                ELSE
                LET full == clear_indirect2_full(d, v3, ino.indirect2, 0, a1)
                    lastsub == ReadWord(d, ino.indirect2, a1)
                    v4 == IF b1 > 0
                          THEN Append(full.v, lastsub) \o Entries(d, lastsub, 0, b1)
                          ELSE full.v
                    c4 == [c2 EXCEPT !.v = v4, !.indirect2 = 0,
                                     !.peak = IF b1 > 0 THEN 2 ELSE full.peak]
                IN IF full.fault # "none"
                   THEN [c2 EXCEPT !.v = full.v, !.fault = full.fault, !.peak = full.peak]
                   ELSE IF b1 > 0 /\ ~InDevice(lastsub)
                   THEN [c2 EXCEPT !.v = Append(full.v, lastsub), !.fault = "device",
                                   !.peak = full.peak]
                   ELSE IF ~clear_size_assert(db2) THEN [c4 EXCEPT !.fault = "assert"]
                   ELSE IF ~(db2 > INODE_INDIRECT2_COUNT) THEN c4
                   ELSE
                   LET db3 == db2 - INODE_INDIRECT2_COUNT
                       r == collect_tree_blocks(d, Append(v4, ino.indirect3),
                                                ino.indirect3, 0, db3, 0, 3)
                   IN IF r.fault # "none"
                      THEN [c4 EXCEPT !.v = r.v, !.fault = r.fault,
                                      !.peak = Max(@, r.peak)]
                      ELSE [c4 EXCEPT !.v = r.v, !.indirect3 = 0,
                                      !.peak = Max(@, r.peak)]

(* -------------------------------- byte I/O ----------------------------- *)
\* A range end that is not clipped to the size.
io_end_unclipped(offset, len, sz) == offset + len

\* let end = (offset + buf.len()).min(self.size as usize)
io_end(offset, len, sz) == Min(offset + len, sz)

\* end_current_block = ((start / BLOCK_SZ + 1) * BLOCK_SZ).min(end)
end_current_block(start, end) == Min((start \div BLOCK_SZ + 1) * BLOCK_SZ, end)

\* The locks of one read_at / write_at, given its result: get_block_id has
\* returned, every lock it took released, before the data block is locked,
\* so a call that locked any block held one lock at a time.
io_locks(r) ==
    IF \/ r.fault = "none" /\ r.resolved # {}
       \/ Cardinality(r.resolved) > 1
       \/ \E b \in r.resolved : b >= INODE_DIRECT_COUNT
    THEN 1 ELSE 0

\* The loop of read_at.  Returns [ret, buf, fault, resolved]: the count, the
\* caller's buffer, the panic if any, and the logical blocks it resolved.
RECURSIVE read_loop(_, _, _, _, _, _, _, _)
read_loop(ino, d, start, end, start_block, read_size, buf, resolved) ==
    LET ecb == end_current_block(start, end)
        block_read_size == ecb - start
        bid == get_block_id(ino, d, start_block)
        res == resolved \cup {start_block}
        dst == [k \in 1..Len(buf) |->
                   IF k > read_size /\ k <= read_size + block_read_size
                   THEN d[bid.id][(start % BLOCK_SZ) + (k - read_size)]
                   ELSE buf[k]]
    IN IF bid.fault # "none"
       THEN [ret |-> read_size, buf |-> buf, fault |-> bid.fault, resolved |-> res]
       ELSE IF ~InDevice(bid.id)
       THEN [ret |-> read_size, buf |-> buf, fault |-> "device", resolved |-> res]
       ELSE IF ecb = end
       THEN [ret |-> read_size + block_read_size, buf |-> dst, fault |-> "none",
             resolved |-> res]
       ELSE read_loop(ino, d, ecb, end, start_block + 1,
                      read_size + block_read_size, dst, res)

\* read_at(offset, buf, device)
read_at(ino, d, offset, buf) ==
    LET end == io_end(offset, Len(buf), ino.size)
    IN IF offset >= end
       THEN [ret |-> 0, buf |-> buf, fault |-> "none", resolved |-> {}]
       ELSE read_loop(ino, d, offset, end, offset \div BLOCK_SZ, 0, buf, {})

\* The loop of write_at.  Returns [ret, dev, fault, resolved].
RECURSIVE write_loop(_, _, _, _, _, _, _, _)
write_loop(ino, d, start, end, start_block, write_size, buf, resolved) ==
    LET ecb == end_current_block(start, end)
        block_write_size == ecb - start
        bid == get_block_id(ino, d, start_block)
        res == resolved \cup {start_block}
        d1 == [d EXCEPT ![bid.id] = [k \in 1..BLOCK_SZ |->
                   IF k > (start % BLOCK_SZ) /\ k <= (start % BLOCK_SZ) + block_write_size
                   THEN buf[write_size + (k - (start % BLOCK_SZ))]
                   ELSE @[k]]]
    IN IF bid.fault # "none"
       THEN [ret |-> write_size, dev |-> d, fault |-> bid.fault, resolved |-> res]
       ELSE IF ~InDevice(bid.id)
       THEN [ret |-> write_size, dev |-> d, fault |-> "device", resolved |-> res]
       ELSE IF ecb = end
       THEN [ret |-> write_size + block_write_size, dev |-> d1, fault |-> "none",
             resolved |-> res]
       ELSE write_loop(ino, d1, ecb, end, start_block + 1,
                       write_size + block_write_size, buf, res)

\* The assertion compiled out.
write_at_assert_off(start, end) == TRUE

\* assert!(start <= end) in write_at
write_at_assert(start, end) == start <= end

\* write_at(offset, buf, device): the assertion, then the loop, which runs at
\* least once.
write_at(ino, d, offset, buf) ==
    LET end == io_end(offset, Len(buf), ino.size)
    IN IF ~write_at_assert(offset, end)
       THEN [ret |-> 0, dev |-> d, fault |-> "assert", resolved |-> {}]
       ELSE write_loop(ino, d, offset, end, offset \div BLOCK_SZ, 0, buf, {})

(* ----------------------------- state machine --------------------------- *)
VARIABLES
    size, direct, indirect1, indirect2, indirect3, type_,  \* the DiskInode
    dev,          \* the block device: block id -> BLOCK_SZ bytes
    nextId,       \* the external allocator: the next never-used block id
    lives,        \* how often a non-empty inode has been emptied
    lastOp,       \* the operation that produced this state
    fault,        \* "none", or the panic that stopped the last operation
    lifeBase,     \* the first id handed out since the inode was last empty
    left,         \* how many ids the last increase_size left in new_blocks
    retv,         \* the vector returned by the last clear_size
    dataIds,      \* ids taken as data blocks since the inode was last empty
    indexIds,     \* ids taken as index blocks since the inode was last empty
    ownedBefore,  \* dataIds \cup indexIds just before the last clear_size
    clearsInRow,  \* completed clear_size calls in a row, counted up to 2
    nwrites,      \* write_at calls so far
    ioOff,        \* the offset of the last read_at / write_at
    ioBuf,        \* the buffer of the last write_at, or after the last read_at
    ret,          \* the count the last read_at / write_at returned
    resolved,     \* the logical blocks the last read_at / write_at resolved
    locksPeak,    \* the most block-cache locks the last operation held at once
    overflowChecks, \* whether the build panics on integer overflow
    acctSize,     \* size accounting: the size field of the inode asked
    acctNew,      \* size accounting: the size argument of the last call
    acctRet,      \* size accounting: the value the last call returned
    callSize,     \* the size of the inode when increase_size was called freely
    callNewSize,  \* the new_size of that call
    callIds,      \* the number of ids in new_blocks of that call
    dirent,       \* a DirEntry: its name field and its inode_number
    deArgName,    \* the name the entry was made from by DirEntry::new
    deArgIno,     \* the inode number the entry was made from
    deCopied,     \* whether the entry is a copy made through as_bytes
    deOutName,    \* what name() returned for the entry
    deOutIno,     \* what inode_number() returned for the entry
    cur_va,       \* the task's mmap_va_allocator
    file_mappings, \* the task's file_mappings: a sequence of FileMapping
    pt,           \* the task's page table: vpn -> [ppn, perm] where valid
    mem,          \* physical frames handed out: ppn -> PAGE_SIZE bytes
    fsize,        \* the size of each file
    mmRet,        \* what the last sys_mmap / handle_page_fault returned
    fdata,        \* the bytes of each file, as read_at delivers them
    synced        \* the write_at calls of the last sync: [offset, len]

inodeVars == <<size, direct, indirect1, indirect2, indirect3, type_>>
vars == <<size, direct, indirect1, indirect2, indirect3, type_, dev, nextId, lives,
          lastOp, fault, lifeBase, left, retv, dataIds, indexIds, ownedBefore,
          clearsInRow, nwrites, ioOff, ioBuf, ret, resolved, locksPeak,
          overflowChecks, acctSize, acctNew, acctRet,
          callSize, callNewSize, callIds,
          dirent, deArgName, deArgIno, deCopied, deOutName, deOutIno,
          cur_va, file_mappings, pt, mem, fsize, mmRet, fdata, synced>>

\* The inode, the device and the bookkeeping of the tree and of byte I/O.
fsVars == <<size, direct, indirect1, indirect2, indirect3, type_, dev, nextId, lives,
            lifeBase, left, retv, dataIds, indexIds, ownedBefore, clearsInRow,
            nwrites, ioOff, ioBuf, ret, resolved, locksPeak>>
acctVars == <<overflowChecks, acctSize, acctNew, acctRet>>
callVars == <<callSize, callNewSize, callIds>>
dirVars == <<dirent, deArgName, deArgIno, deCopied, deOutName, deOutIno>>
mmVars == <<cur_va, file_mappings, pt, mem, fsize, mmRet, fdata, synced>>

\* What the operations on the tree and the bytes of a file do not touch.
restVars == <<acctVars, callVars, dirVars, mmVars>>

\* A call that is not read_at / write_at leaves no I/O result behind.
NoIO == /\ ioOff' = 0 /\ ioBuf' = <<>> /\ ret' = 0 /\ resolved' = {}
        /\ UNCHANGED nwrites

Inode == [size |-> size, direct |-> direct, indirect1 |-> indirect1,
          indirect2 |-> indirect2, indirect3 |-> indirect3]

DiskInodeType == {"File", "Directory"}

\* Block 0 is not owned by any inode (ids handed out are non-zero).  Its first
\* word is whatever the volume keeps there: zero on a blank device, the magic
\* that SuperBlock::initialize stores first on a formatted one.
Block0Words == {0, EFS_MAGIC}

SuperBlockInit(w) == WriteWord([b \in 0..0 |-> ZeroBlock], 0, 0, w)[0]

\* No size accounting call has been made.  No arithmetic of the tree or of
\* byte I/O on sizes up to MaxSize leaves the u32 range, so the build's
\* overflow checks are immaterial there.
AcctIdle == overflowChecks = FALSE /\ acctSize = 0 /\ acctNew = 0 /\ acctRet = 0

\* increase_size has only been called the way its caller's protocol says.
CallIdle == callSize = 0 /\ callNewSize = 0 /\ callIds = 0

\* DirEntry::empty()
DirEntry_empty == [name |-> [k \in 1..(NAME_LENGTH_LIMIT + 1) |-> 0], inode_number |-> 0]

\* No directory entry has been made: the entry is the empty one.
DirIdle ==
    /\ dirent = DirEntry_empty
    /\ deArgName = <<>> /\ deArgIno = 0 /\ deCopied = FALSE
    /\ deOutName = <<>> /\ deOutIno = 0

\* An empty inode on a device whose block 0 starts with the word w.
FsInit(w) ==
    /\ size = 0
    /\ direct = [k \in 0..(INODE_DIRECT_COUNT - 1) |-> 0]
    /\ indirect1 = 0 /\ indirect2 = 0 /\ indirect3 = 0
    /\ type_ = "File"
    /\ dev = [b \in 0..MaxBlockId |-> IF b = 0 THEN SuperBlockInit(w) ELSE ZeroBlock]
    /\ nextId = 1
    /\ lives = 0
    /\ lastOp = "initialize"
    /\ fault = "none"
    /\ lifeBase = 1 /\ left = 0 /\ retv = <<>>
    /\ dataIds = {} /\ indexIds = {} /\ ownedBefore = {}
    /\ clearsInRow = 0
    /\ nwrites = 0 /\ ioOff = 0 /\ ioBuf = <<>> /\ ret = 0 /\ resolved = {}
    /\ locksPeak = 0

\* The files a task can have open, by the Arc<Inode> its descriptors hold.
Files == {"A", "B"}

\* A task that has mapped nothing: VirtualAddressAllocator::new(MMAP_AREA_BASE),
\* no FileMapping, no page of the area mapped.  File A is a page and a half
\* long, file B shorter than a page.
MmIdle ==
    /\ cur_va = MMAP_AREA_BASE
    /\ file_mappings = <<>>
    /\ pt = <<>>
    /\ mem = <<>>
    /\ fsize = [f \in Files |-> IF f = "A" THEN PAGE_SIZE + 2 ELSE PAGE_SIZE - 1]
    /\ mmRet = 0
    /\ fdata = [f \in Files |-> [p \in 1..fsize[f] |-> (IF f = "A" THEN 10 ELSE 50) + p - 1]]
    /\ synced = {}

Init == (\E w \in Block0Words : FsInit(w)) /\ AcctIdle /\ CallIdle /\ DirIdle /\ MmIdle

\* DiskInode::initialize(type_)
Initialize(t) ==
    /\ fault = "none"
    /\ size = 0 \/ lives < MaxLives
    /\ size' = 0
    /\ direct' = [k \in 0..(INODE_DIRECT_COUNT - 1) |-> 0]
    /\ indirect1' = 0 /\ indirect2' = 0 /\ indirect3' = 0
    /\ type_' = t
    /\ lives' = IF size = 0 THEN lives ELSE lives + 1
    /\ lastOp' = "initialize"
    /\ dataIds' = {} /\ indexIds' = {}
    /\ lifeBase' = nextId
    /\ clearsInRow' = 0
    /\ locksPeak' = 0
    /\ NoIO
    /\ UNCHANGED <<dev, nextId, fault, left, retv, ownedBefore>>
    /\ UNCHANGED restVars

\* The allocator hands out `n` fresh ids.
FreshIds(n) == IF n = 0 THEN <<>> ELSE [k \in 1..n |-> nextId + k - 1]

LogIds(l, kind) == {l[k].id : k \in {j \in 1..Len(l) : l[j].kind = kind}}

\* The caller's protocol: blocks_num_needed(new_size) fresh ids, then
\* increase_size(new_size, ids).
IncreaseSize(new_size) ==
    /\ fault = "none"
    /\ lives < MaxLives
    /\ new_size >= size
    /\ nextId + blocks_num_needed(size, new_size) - 1 <= MaxBlockId
    /\ \E r \in {increase_size(Inode, dev, new_size,
                                FreshIds(blocks_num_needed(size, new_size)))} :
          /\ size' = r.size
          /\ direct' = r.direct
          /\ indirect1' = r.indirect1
          /\ indirect2' = r.indirect2
          /\ indirect3' = r.indirect3
          /\ dev' = r.dev
          /\ nextId' = nextId + blocks_num_needed(size, new_size)
          /\ fault' = r.fault
          /\ left' = Len(r.ids)
          /\ dataIds' = dataIds \cup LogIds(r.log, "data")
          /\ indexIds' = indexIds \cup LogIds(r.log, "index")
          /\ locksPeak' = r.peak
    /\ lastOp' = "increase_size"
    /\ clearsInRow' = 0
    /\ NoIO
    /\ UNCHANGED <<type_, lives, lifeBase, retv, ownedBefore>>
    /\ UNCHANGED restVars

\* DiskInode::clear_size(device)
ClearSize ==
    /\ fault = "none"
    /\ size = 0 \/ lives < MaxLives
    /\ \E r \in {clear_size(Inode, dev)} :
          /\ size' = r.size
          /\ direct' = r.direct
          /\ indirect1' = r.indirect1
          /\ indirect2' = r.indirect2
          /\ indirect3' = r.indirect3
          /\ fault' = r.fault
          /\ retv' = r.v
          /\ locksPeak' = r.peak
          /\ clearsInRow' = IF r.fault # "none" THEN 0 ELSE Min(clearsInRow + 1, 2)
    /\ ownedBefore' = dataIds \cup indexIds
    /\ dataIds' = {} /\ indexIds' = {}
    /\ lives' = IF size = 0 THEN lives ELSE lives + 1
    /\ lifeBase' = nextId
    /\ lastOp' = "clear_size"
    /\ NoIO
    /\ UNCHANGED <<type_, dev, nextId, left>>
    /\ UNCHANGED restVars

\* The sizes growth is asked for: every block count in range, ending on a
\* block boundary or one byte into the last block.
GrowSizes == {s \in 0..MaxSize : s % BLOCK_SZ \in {0, 1}}

Next ==
    \/ \E t \in DiskInodeType : Initialize(t)
    \/ \E new_size \in GrowSizes : IncreaseSize(new_size)
    \/ ClearSize

Spec == Init /\ [][Next]_vars

(* ------------------------- byte I/O on a grown file -------------------- *)
\* The bytes a caller writes: byte i of the buffer is 1 + (i mod 7).
PatternBuf(len) == IF len = 0 THEN <<>> ELSE [k \in 1..len |-> 1 + ((k - 1) % 7)]

\* The caller's read buffer before the call: every byte 255.
BlankBuf(len) == IF len = 0 THEN <<>> ELSE [k \in 1..len |-> 255]

\* The longest buffer: from two bytes before a tier boundary it covers the
\* rest of that block, two whole blocks and the first byte of the next one.
MaxBuf == 2 * BLOCK_SZ + 3

\* The file sizes I/O is tried on: empty, inside the first block, two whole
\* blocks, exactly each tier boundary, one byte into the indirect2 tier, and
\* the largest file.
IOSizes == {0, 3, 2 * BLOCK_SZ, DIRECT_BOUND * BLOCK_SZ, INDIRECT1_BOUND * BLOCK_SZ,
            INDIRECT1_BOUND * BLOCK_SZ + 1, INDIRECT2_BOUND * BLOCK_SZ, MaxSize}

\* Offsets: the start, inside the first block, two bytes before the end of
\* the direct tier and of the indirect2 tier, the size and one past it.
\* Lengths: empty, one byte, one block, the longest buffer.
IOOffsets == {0, 3, DIRECT_BOUND * BLOCK_SZ - 2, INDIRECT2_BOUND * BLOCK_SZ - 2,
              size, size + 1}
IOLens == {0, 1, BLOCK_SZ, MaxBuf}

\* DiskInode::write_at(offset, buf, device)
WriteAt(offset, len) ==
    /\ fault = "none"
    /\ nwrites < MaxWrites
    /\ \E r \in {write_at(Inode, dev, offset, PatternBuf(len))} :
          /\ dev' = r.dev
          /\ fault' = r.fault
          /\ ret' = r.ret
          /\ resolved' = r.resolved
          /\ locksPeak' = io_locks(r)
    /\ ioOff' = offset
    /\ ioBuf' = PatternBuf(len)
    /\ nwrites' = nwrites + 1
    /\ lastOp' = "write_at"
    /\ clearsInRow' = 0
    /\ UNCHANGED <<size, direct, indirect1, indirect2, indirect3, type_, nextId, lives,
                   lifeBase, left, retv, dataIds, indexIds, ownedBefore>>
    /\ UNCHANGED restVars

\* DiskInode::read_at(offset, buf, device)
ReadAt(offset, len) ==
    /\ fault = "none"
    /\ \E r \in {read_at(Inode, dev, offset, BlankBuf(len))} :
          /\ fault' = r.fault
          /\ ret' = r.ret
          /\ ioBuf' = r.buf
          /\ resolved' = r.resolved
          /\ locksPeak' = io_locks(r)
    /\ ioOff' = offset
    /\ lastOp' = "read_at"
    /\ clearsInRow' = 0
    /\ UNCHANGED <<size, direct, indirect1, indirect2, indirect3, type_, dev, nextId,
                   lives, lifeBase, left, retv, dataIds, indexIds, ownedBefore, nwrites>>
    /\ UNCHANGED restVars

NextIO ==
    \/ \E new_size \in IOSizes : IncreaseSize(new_size)
    \/ \E offset \in IOOffsets, len \in IOLens : WriteAt(offset, len)
    \/ \E offset \in IOOffsets, len \in IOLens : ReadAt(offset, len)

SpecIO == Init /\ [][NextIO]_vars

(* ------------------------------ size accounting ----------------------- *)
\* The size arguments: every value of the (scaled) u32.
AcctSizes == 0..U32_MAX

\* DiskInode::_data_blocks(size) called on acctNew, as data_blocks() calls
\* it on the size field
DataBlocks ==
    /\ fault = "none"
    /\ IF overflowChecks /\ _data_blocks_overflows(acctNew)
       THEN fault' = "overflow" /\ acctRet' = 0
       ELSE fault' = "none" /\ acctRet' = _data_blocks(acctNew)
    /\ lastOp' = "data_blocks"
    /\ UNCHANGED <<fsVars, overflowChecks, acctSize, acctNew, callVars, dirVars, mmVars>>

\* DiskInode::total_blocks(size), an associated function, called on acctNew
TotalBlocks ==
    /\ fault = "none"
    /\ IF overflowChecks /\ _data_blocks_overflows(acctNew)
       THEN fault' = "overflow" /\ acctRet' = 0
       ELSE fault' = "none" /\ acctRet' = total_blocks(acctNew)
    /\ lastOp' = "total_blocks"
    /\ UNCHANGED <<fsVars, overflowChecks, acctSize, acctNew, callVars, dirVars, mmVars>>

\* DiskInode::blocks_num_needed(new_size) with new_size = acctNew, on an
\* inode whose size is acctSize
BlocksNumNeeded ==
    /\ fault = "none"
    /\ IF ~blocks_num_needed_assert(acctSize, acctNew)
       THEN fault' = "assert" /\ acctRet' = 0
       ELSE IF overflowChecks /\ (\/ _data_blocks_overflows(acctNew)
                                  \/ _data_blocks_overflows(acctSize)
                                  \/ blocks_num_needed_underflows(acctSize, acctNew))
       THEN fault' = "overflow" /\ acctRet' = 0
       ELSE fault' = "none" /\ acctRet' = blocks_num_needed(acctSize, acctNew)
    /\ lastOp' = "blocks_num_needed"
    /\ UNCHANGED <<fsVars, overflowChecks, acctSize, acctNew, callVars, dirVars, mmVars>>

\* The inode asked has a size that growth can give it, the argument is any
\* u32, and the build is either.
InitAcct ==
    /\ FsInit(0)
    /\ overflowChecks \in BOOLEAN
    /\ acctSize \in GrowSizes
    /\ acctNew \in AcctSizes
    /\ acctRet = 0
    /\ CallIdle /\ DirIdle /\ MmIdle

NextAcct == DataBlocks \/ TotalBlocks \/ BlocksNumNeeded

SpecAcct == InitAcct /\ [][NextAcct]_vars

(* ------------------- increase_size outside the protocol ---------------- *)
\* The ids a caller that miscounts may pass for a growth that needs `need`:
\* none, one too few, the exact count, one too many.
SupplyCounts(need) == {n \in {0, need - 1, need, need + 1} : n >= 0}

\* The ids growth needs according to blocks_num_needed, which only answers
\* for new_size >= size.
NeededIds(cur_size, new_size) ==
    IF blocks_num_needed_assert(cur_size, new_size)
    THEN blocks_num_needed(cur_size, new_size) ELSE 0

\* DiskInode::increase_size(new_size, new_blocks, device) with any new_size
\* and n fresh ids, whatever blocks_num_needed says.
IncreaseSizeWith(new_size, n) ==
    /\ fault = "none"
    /\ nextId + n - 1 <= MaxBlockId
    /\ \E r \in {increase_size(Inode, dev, new_size, FreshIds(n))} :
          /\ size' = r.size
          /\ direct' = r.direct
          /\ indirect1' = r.indirect1
          /\ indirect2' = r.indirect2
          /\ indirect3' = r.indirect3
          /\ dev' = r.dev
          /\ fault' = r.fault
          /\ left' = Len(r.ids)
          /\ dataIds' = dataIds \cup LogIds(r.log, "data")
          /\ indexIds' = indexIds \cup LogIds(r.log, "index")
          /\ locksPeak' = r.peak
    /\ nextId' = nextId + n
    /\ callSize' = size /\ callNewSize' = new_size /\ callIds' = n
    /\ lastOp' = "increase_size_with"
    /\ clearsInRow' = 0
    /\ NoIO
    /\ UNCHANGED <<type_, lives, lifeBase, retv, ownedBefore, acctVars, dirVars, mmVars>>

\* A file is grown by the protocol, then increase_size is called once with
\* arguments of the caller's own making.
NextCall ==
    \/ \E new_size \in IOSizes :
          lastOp # "increase_size_with" /\ IncreaseSize(new_size)
    \/ \E new_size \in IOSizes \cup {1, BLOCK_SZ} :
          \E n \in SupplyCounts(NeededIds(size, new_size)) :
             lastOp # "increase_size_with" /\ IncreaseSizeWith(new_size, n)

SpecCall == Init /\ [][NextCall]_vars

(* --------------------------- growth in two steps ----------------------- *)
\* A file is grown by the protocol to any size, once or in several steps,
\* and then once more, again with exactly the ids blocks_num_needed asks for;
\* the size before that last growth is kept in callSize.
NextPath ==
    \/ \E new_size \in GrowSizes :
          lastOp # "increase_size_with" /\ IncreaseSize(new_size)
    \/ \E new_size \in GrowSizes :
          /\ lastOp # "increase_size_with"
          /\ new_size >= size
          /\ IncreaseSizeWith(new_size, blocks_num_needed(size, new_size))

SpecPath == Init /\ [][NextPath]_vars

(* ---------------------------- directory entries ------------------------ *)
\* A copy that stops one byte early.
DirEntry_new_short(name, inode_number) ==
    IF Len(name) > NAME_LENGTH_LIMIT + 1
    THEN [fault |-> "index", e |-> DirEntry_empty]
    ELSE [fault |-> "none",
          e |-> [name |-> [k \in 1..(NAME_LENGTH_LIMIT + 1) |->
                              IF k < Len(name) THEN name[k] ELSE 0],
                 inode_number |-> inode_number]]

\* DirEntry::new(name, inode_number): bytes[..name.len()] of a zeroed array
\* of NAME_LENGTH_LIMIT + 1 bytes is overwritten with the name; the slice
\* panics when name.len() exceeds the array.
DirEntry_new(name, inode_number) ==
    IF Len(name) > NAME_LENGTH_LIMIT + 1
    THEN [fault |-> "index", e |-> DirEntry_empty]
    ELSE [fault |-> "none",
          e |-> [name |-> [k \in 1..(NAME_LENGTH_LIMIT + 1) |->
                              IF k <= Len(name) THEN name[k] ELSE 0],
                 inode_number |-> inode_number]]

\* as_bytes(): the DIRENT_SZ bytes of the #[repr(C)] record, the name field
\* followed by the u32 inode_number in the byte order of the target.
DirEntry_as_bytes(e) ==
    [k \in 1..DIRENT_SZ |->
        IF k <= NAME_LENGTH_LIMIT + 1 THEN e.name[k]
        ELSE IF k = NAME_LENGTH_LIMIT + 2 THEN e.inode_number % 256
        ELSE IF k = NAME_LENGTH_LIMIT + 3 THEN (e.inode_number \div 256) % 256
        ELSE IF k = NAME_LENGTH_LIMIT + 4 THEN (e.inode_number \div 65536) % 256
        ELSE (e.inode_number \div 16777216) % 256]

\* empty() overwritten through as_bytes_mut() with DIRENT_SZ bytes
DirEntry_from_bytes(b) ==
    [name |-> [k \in 1..(NAME_LENGTH_LIMIT + 1) |-> b[k]],
     inode_number |-> b[NAME_LENGTH_LIMIT + 2] + 256 * b[NAME_LENGTH_LIMIT + 3]
                        + 65536 * b[NAME_LENGTH_LIMIT + 4]
                        + 16777216 * b[NAME_LENGTH_LIMIT + 5]]

\* core::str::from_utf8 on bytes below 128 (every name here is ASCII)
from_utf8_ok(bytes) == \A k \in 1..Len(bytes) : bytes[k] < 128

\* name(): the position of the first zero byte, found by indexing the name
\* field at 0, 1, 2, ... without a bound; then the bytes before it as text.
DirEntry_name(e) ==
    LET zeros == {i \in 0..NAME_LENGTH_LIMIT : e.name[i + 1] = 0}
        len == CHOOSE i \in zeros : \A j \in zeros : i <= j
        bytes == [k \in 1..len |-> e.name[k]]
    IN IF zeros = {} THEN [fault |-> "index", s |-> <<>>]
       ELSE IF len = 0 THEN [fault |-> "none", s |-> <<>>]
       ELSE IF ~from_utf8_ok(bytes) THEN [fault |-> "utf8", s |-> <<>>]
       ELSE [fault |-> "none", s |-> bytes]

\* The names passed to new: every length up to one past the name field, of
\* the letters a..z in turn, as they are or with a zero byte put first, in
\* the middle or last.
NameLens == 0..(NAME_LENGTH_LIMIT + 2)
Letters(len) == IF len = 0 THEN <<>> ELSE [k \in 1..len |-> 97 + ((k - 1) % 26)]
WithZeroAt(name, p) == [k \in 1..Len(name) |-> IF k = p THEN 0 ELSE name[k]]
Names ==
    {Letters(len) : len \in NameLens}
        \cup {WithZeroAt(Letters(len), p) :
                  len \in NameLens \ {0}, p \in {1, 2, NAME_LENGTH_LIMIT}}
        \cup {WithZeroAt(Letters(len), len) : len \in NameLens \ {0}}

\* Inode numbers: zero, one byte, three bytes, and the top byte in use.
InodeNumbers == {0, 7, 66051, 2130706433}

\* let e = DirEntry::new(name, inode_number)
DirNew(name, inode_number) ==
    /\ fault = "none"
    /\ \E r \in {DirEntry_new(name, inode_number)} :
          /\ fault' = r.fault
          /\ dirent' = r.e
    /\ deArgName' = name /\ deArgIno' = inode_number
    /\ deCopied' = FALSE
    /\ deOutName' = <<>> /\ deOutIno' = 0
    /\ lastOp' = "new"
    /\ UNCHANGED <<fsVars, acctVars, callVars, mmVars>>

\* let mut f = DirEntry::empty(); f.as_bytes_mut().copy_from_slice(e.as_bytes())
DirCopy ==
    /\ fault = "none"
    /\ dirent' = DirEntry_from_bytes(DirEntry_as_bytes(dirent))
    /\ deCopied' = TRUE
    /\ deOutName' = <<>> /\ deOutIno' = 0
    /\ lastOp' = "copy"
    /\ UNCHANGED <<fsVars, acctVars, callVars, mmVars, fault, deArgName, deArgIno>>

\* e.name() and e.inode_number()
DirName ==
    /\ fault = "none"
    /\ \E r \in {DirEntry_name(dirent)} :
          /\ fault' = r.fault
          /\ deOutName' = r.s
    /\ deOutIno' = dirent.inode_number
    /\ lastOp' = "name"
    /\ UNCHANGED <<fsVars, acctVars, callVars, mmVars, dirent, deArgName, deArgIno,
                   deCopied>>

InitDir == FsInit(0) /\ AcctIdle /\ CallIdle /\ DirIdle /\ MmIdle

NextDir ==
    \/ \E name \in Names, n \in InodeNumbers : DirNew(name, n)
    \/ DirCopy
    \/ DirName

SpecDir == InitDir /\ [][NextDir]_vars

(* ------------------------- file-backed mmap (os) ----------------------- *)
\* va.floor(), va.ceil() and vpn.into(): the page of an address, the first
\* page at or after it, the first address of a page.
VirtAddr_floor(va) == va \div PAGE_SIZE
VirtAddr_ceil(va) == (va + PAGE_SIZE - 1) \div PAGE_SIZE
VirtPageNum_into(vpn) == vpn * PAGE_SIZE

\* self.cur_va.0 + len leaves the usize range: a build with overflow checks
\* panics there, a build without them wraps.
VirtualAddressAllocator_alloc_overflows(cur, len) == cur + len > USIZE_MAX

\* VirtualAddressAllocator::alloc(len): [start, cur_va afterwards], the sum
\* in usize
VirtualAddressAllocator_alloc(cur, len) ==
    [start |-> cur, cur_va |-> VirtPageNum_into(VirtAddr_ceil((cur + len) % USIZE_MOD))]

\* MapRange::new
MapRange_new(start, len, offset, perm) ==
    [start |-> start, len |-> len, offset |-> offset, perm |-> perm]

\* self.start <= va && va.0 < self.start.0 + self.len, the sum in usize
MapRange_contains(r, va) == r.start <= va /\ va < (r.start + r.len) % USIZE_MOD

MapRange_va_offset(r, vpn) == VirtPageNum_into(vpn) - r.start

MapRange_file_offset(r, vpn) == MapRange_va_offset(r, vpn) + r.offset

\* iter().find(pred) / iter_mut().find(pred), given the set I of the indices
\* whose element satisfies pred: the first of them, 0 for None.
FindFirst(I) == IF I = {} THEN 0 ELSE CHOOSE k \in I : \A j \in I : k <= j

\* FileMapping::new_empty(file)
FileMapping_new_empty(file) ==
    [file |-> file, ranges |-> <<>>, frames |-> <<>>, dirty_parts |-> {},
     map |-> [o \in {} |-> 0]]

\* FileMapping::push
FileMapping_push(m, start, len, offset, perm) ==
    [m EXCEPT !.ranges = Append(@, MapRange_new(start, len, offset, perm))]

\* FileMapping::contains
FileMapping_contains(m, va) == \E k \in 1..Len(m.ranges) : MapRange_contains(m.ranges[k], va)

\* self.map.get(&offset)
FileMapping_map_get(map, offset) ==
    IF offset \in DOMAIN map THEN [some |-> TRUE, ppn |-> map[offset]]
    ELSE [some |-> FALSE, ppn |-> 0]

\* FileMapping::map(va), where frame is the ppn frame_alloc() hands out if it
\* is called.  Returns [some, m, ppn, range, shared].
FileMapping_map(m, va, frame) ==
    LET vpn == VirtAddr_floor(va)
        k == FindFirst({j \in 1..Len(m.ranges) : MapRange_contains(m.ranges[j], va)})
        range == m.ranges[k]
        offset == MapRange_file_offset(range, vpn)
        got == FileMapping_map_get(m.map, offset)
        ppn == IF got.some THEN got.ppn ELSE frame
        m1 == IF got.some THEN m
              ELSE [m EXCEPT !.frames = Append(@, frame),
                             !.map = (offset :> frame) @@ @]
        m2 == IF "W" \in range.perm
              THEN [m1 EXCEPT !.dirty_parts = @ \cup {offset}]
              ELSE m1
    IN IF k = 0
       THEN [some |-> FALSE, m |-> m, ppn |-> 0, range |-> MapRange_new(0, 0, 0, {}),
             shared |-> FALSE]
       ELSE [some |-> TRUE, m |-> m2, ppn |-> ppn, range |-> range, shared |-> got.some]

\* What one range contributes to va_len for a dirty offset, the closure of
\* sync's iterator: the sum r.offset + r.len in usize.
FileMapping_sync_va_len_of(r, offset) ==
    IF r.offset <= offset /\ offset < (r.offset + r.len) % USIZE_MOD
    THEN Min(PAGE_SIZE, ((r.offset + r.len) % USIZE_MOD) - offset)
    ELSE 0

\* .max() over the ranges, 0 standing for the candidates that are all 0
FileMapping_sync_va_len(m, offset) ==
    LET c == {FileMapping_sync_va_len_of(m.ranges[k], offset) : k \in 1..Len(m.ranges)}
    IN CHOOSE x \in c : \A y \in c : y <= x

\* The closure leaves the usize range in r.offset + r.len for some range it
\* gets as far as adding for.
FileMapping_sync_overflows(m, offset) ==
    \E k \in 1..Len(m.ranges) :
        m.ranges[k].offset <= offset /\ m.ranges[k].offset + m.ranges[k].len > USIZE_MAX

\* A write-back of the whole of va_len.
FileMapping_sync_write_len_whole(va_len, file_size, offset) == va_len

\* let write_len = va_len.min(file_size - offset)
FileMapping_sync_write_len(va_len, file_size, offset) == Min(va_len, file_size - offset)

\* FileMapping::sync on the frames `memory` and the bytes `data` of the
\* file: the dirty offsets are visited in ascending order, up to the first
\* one whose lookup, maximum or sum panics.  Gives the panic, the write_at
\* calls made and the bytes of the file afterwards; write_at stores no byte
\* at or beyond the size of the file.
FileMapping_sync(m, file_size, memory, data, checks) ==
    LET lookup_fails(o) == ~FileMapping_map_get(m.map, o).some
        panics(o) == \/ lookup_fails(o)
                     \/ o < file_size /\ Len(m.ranges) = 0
                     \/ o < file_size /\ checks /\ FileMapping_sync_overflows(m, o)
        stop == FindFirst({o \in m.dirty_parts : panics(o)} \cup {USIZE_MOD})
        visited == {o \in m.dirty_parts : o < stop}
        writes == {[file |-> m.file, offset |-> o,
                    len |-> FileMapping_sync_write_len(FileMapping_sync_va_len(m, o),
                                                       file_size, o)] :
                      o \in {v \in visited : v < file_size}}
        written(p) == {w \in writes : w.offset < p /\ p <= w.offset + w.len}
    IN [fault |-> IF stop = USIZE_MOD THEN "none"
                  ELSE IF lookup_fails(stop) \/ Len(m.ranges) = 0 THEN "unwrap"
                  ELSE "overflow",
        writes |-> writes,
        data |-> [p \in 1..Len(data) |->
                    IF written(p) = {} THEN data[p]
                    ELSE LET w == CHOOSE x \in written(p) : TRUE
                         IN memory[m.map[w.offset]][p - w.offset]]]

\* The task's fd_table: stdin, a closed slot, file A opened read-write, a
\* duplicate of that descriptor (the same file object), file B opened
\* read-only.  Descriptor fd is entry fd + 1.
FdTable ==
    << [kind |-> "Stdin", file |-> "", readable |-> TRUE, writable |-> FALSE],
       [kind |-> "None", file |-> "", readable |-> FALSE, writable |-> FALSE],
       [kind |-> "OSInode", file |-> "A", readable |-> TRUE, writable |-> TRUE],
       [kind |-> "OSInode", file |-> "A", readable |-> TRUE, writable |-> TRUE],
       [kind |-> "OSInode", file |-> "B", readable |-> TRUE, writable |-> FALSE] >>

\* Byte p of file f, as read_at delivers it.
FileContent(f, p) == fdata[f][p + 1]

\* parse_permission(inode)
parse_permission(inode) ==
    {"U"} \cup (IF inode.readable THEN {"R"} ELSE {})
          \cup (IF inode.writable THEN {"W"} ELSE {})

\* find_file_mapping(mappings, file): the index of the mapping whose file
\* is the same Arc, 0 for None.
find_file_mapping(mappings, file) ==
    FindFirst({k \in 1..Len(mappings) : mappings[k].file = file})

\* if len == 0 { return -1 }
sys_mmap_len_invalid(len) == len = 0

\* sys_mmap(fd, len, offset) on the task [cur_va, file_mappings]: the value
\* returned and the task afterwards, and whether the allocator's sum left
\* the usize range on the way.
sys_mmap(cur, mappings, sizes, fd, len, offset) ==
    LET rejected == [ret |-> -1, cur_va |-> cur, file_mappings |-> mappings,
                     overflows |-> FALSE]
        fp == FdTable[fd + 1]
        perm == parse_permission(fp)
        a == VirtualAddressAllocator_alloc(cur, len)
        i == find_file_mapping(mappings, fp.file)
    IN IF sys_mmap_len_invalid(len) THEN rejected
       ELSE IF offset % PAGE_SIZE # 0 THEN rejected
       ELSE IF fd >= Len(FdTable) THEN rejected
       ELSE IF fp.kind = "None" THEN rejected
       ELSE IF fp.kind # "OSInode" THEN rejected
       ELSE IF offset >= sizes[fp.file] THEN rejected
       ELSE [ret |-> a.start, cur_va |-> a.cur_va,
             overflows |-> VirtualAddressAllocator_alloc_overflows(cur, len),
             file_mappings |->
                 IF i # 0
                 THEN [mappings EXCEPT ![i] = FileMapping_push(@, a.start, len, offset, perm)]
                 ELSE Append(mappings,
                             FileMapping_push(FileMapping_new_empty(fp.file),
                                              a.start, len, offset, perm))]

\* The number of ranges recorded in all mappings.
NumRanges(mappings) ==
    LET RECURSIVE sum(_)
        sum(k) == IF k = 0 THEN 0 ELSE Len(mappings[k].ranges) + sum(k - 1)
    IN sum(Len(mappings))

\* A frame as frame_alloc() hands it out, and the frame after
\* file.read_at(file_offset, &mut bytes[..read_len]).
ZeroPage == [k \in 1..PAGE_SIZE |-> 0]
LoadedPage(f, file_offset, read_len) ==
    [k \in 1..PAGE_SIZE |-> IF k <= read_len THEN FileContent(f, file_offset + k - 1) ELSE 0]

\* The system call.
SysMmap(fd, len, offset) ==
    /\ fault = "none"
    /\ lastOp' = "sys_mmap"
    /\ \E r \in {sys_mmap(cur_va, file_mappings, fsize, fd, len, offset)} :
          /\ NumRanges(r.file_mappings) <= MaxMaps
          /\ IF overflowChecks /\ r.overflows
             THEN /\ fault' = "overflow" /\ mmRet' = 0
                  /\ UNCHANGED <<cur_va, file_mappings>>
             ELSE /\ fault' = "none"
                  /\ mmRet' = r.ret
                  /\ cur_va' = r.cur_va
                  /\ file_mappings' = r.file_mappings
    /\ synced' = {}
    /\ UNCHANGED <<fsVars, acctVars, callVars, dirVars, pt, mem, fsize, fdata>>

\* A page table lookup that finds no valid entry.
translate_is_valid_never(table, vpn) == FALSE

\* memory_set.translate(fault_vpn) gives an entry and pte.is_valid()
translate_is_valid(table, vpn) == vpn \in DOMAIN table

\* handle_page_fault(fault_addr), called by the trap handler
HandlePageFault(fault_addr) ==
    /\ fault = "none"
    /\ lastOp' = "handle_page_fault"
    /\ LET fault_vpn == VirtAddr_floor(fault_addr)
           i == FindFirst({k \in 1..Len(file_mappings) :
                               FileMapping_contains(file_mappings[k], fault_addr)})
       IN IF translate_is_valid(pt, fault_vpn)
          THEN mmRet' = FALSE /\ UNCHANGED <<file_mappings, pt, mem, fault>>
          ELSE IF i = 0
          THEN mmRet' = FALSE /\ UNCHANGED <<file_mappings, pt, mem, fault>>
          ELSE \E r \in {FileMapping_map(file_mappings[i], fault_addr, Len(mem) + 1)} :
                 LET file == file_mappings[i].file
                     file_size == fsize[file]
                     file_offset == MapRange_file_offset(r.range, fault_vpn)
                     read_len == Min(PAGE_SIZE, file_size - file_offset)
                 IN /\ file_mappings' = [file_mappings EXCEPT ![i] = r.m]
                    /\ pt' = (fault_vpn :> [ppn |-> r.ppn, perm |-> r.range.perm]) @@ pt
                    /\ IF r.shared
                       THEN mem' = mem /\ fault' = "none" /\ mmRet' = TRUE
                       ELSE IF ~(file_offset < file_size)
                       THEN /\ mem' = Append(mem, ZeroPage)
                            /\ fault' = "assert" /\ mmRet' = FALSE
                       ELSE /\ mem' = Append(mem, LoadedPage(file, file_offset, read_len))
                            /\ fault' = "none" /\ mmRet' = TRUE
    /\ synced' = {}
    /\ UNCHANGED <<fsVars, acctVars, callVars, dirVars, cur_va, fsize, fdata>>

\* A store of one byte by the user program through a mapped, writable page.
UserStore(va, b) ==
    /\ fault = "none"
    /\ VirtAddr_floor(va) \in DOMAIN pt
    /\ "W" \in pt[VirtAddr_floor(va)].perm
    /\ mem' = [mem EXCEPT ![pt[VirtAddr_floor(va)].ppn][(va % PAGE_SIZE) + 1] = b]
    /\ lastOp' = "store"
    /\ mmRet' = 0
    /\ synced' = {}
    /\ UNCHANGED <<fsVars, fault, acctVars, callVars, dirVars, cur_va, file_mappings,
                   pt, fsize, fdata>>

\* mapping.sync() on one of the task's mappings
Sync(i) ==
    /\ fault = "none"
    /\ lastOp' = "sync"
    /\ LET file == file_mappings[i].file
       IN \E r \in {FileMapping_sync(file_mappings[i], fsize[file], mem, fdata[file],
                                     overflowChecks)} :
             /\ fault' = r.fault
             /\ synced' = r.writes
             /\ fdata' = [fdata EXCEPT ![file] = r.data]
    /\ mmRet' = 0
    /\ UNCHANGED <<fsVars, acctVars, callVars, dirVars, cur_va, file_mappings, pt, mem,
                   fsize>>

\* clear_size on the inode of a file that is mapped or about to be: the
\* size becomes 0.
FileClearSize(f) ==
    /\ fault = "none"
    /\ fsize[f] > 0
    /\ lastOp' = "file_clear_size"
    /\ fsize' = [fsize EXCEPT ![f] = 0]
    /\ fdata' = [fdata EXCEPT ![f] = <<>>]
    /\ synced' = {}
    /\ mmRet' = 0
    /\ UNCHANGED <<fsVars, fault, acctVars, callVars, dirVars, cur_va, file_mappings,
                   pt, mem>>

\* Arguments of sys_mmap: every descriptor and one past the table; no
\* length, one byte, a page and a byte, and a page less than the whole
\* usize range; offsets 0, unaligned, one page.
MmapFds == 0..Len(FdTable)
MmapLens == {0, 1, PAGE_SIZE + 1, USIZE_MOD - PAGE_SIZE}
MmapOffsets == {0, 1, PAGE_SIZE}

\* Addresses touched: from two pages below the area to the highest mark the
\* allocator can reach.
TouchedAddrs ==
    (MMAP_AREA_BASE - 2 * PAGE_SIZE)..(MMAP_AREA_BASE + 2 * PAGE_SIZE * MaxMaps)

\* Addresses stored to: the first byte of a range that maps its file from
\* offset 0, as the test program writes from the start of its mappings.
StoreAddrs ==
    {va \in TouchedAddrs :
        \E k \in 1..Len(file_mappings) : \E j \in 1..Len(file_mappings[k].ranges) :
            /\ file_mappings[k].ranges[j].start = va
            /\ file_mappings[k].ranges[j].offset = 0}

\* A task that has mapped nothing, in a kernel of either build.
InitMm ==
    /\ FsInit(0)
    /\ overflowChecks \in BOOLEAN /\ acctSize = 0 /\ acctNew = 0 /\ acctRet = 0
    /\ CallIdle /\ DirIdle /\ MmIdle

NextMm ==
    \/ \E fd \in MmapFds, len \in MmapLens, offset \in MmapOffsets : SysMmap(fd, len, offset)
    \/ \E va \in TouchedAddrs : HandlePageFault(va)
    \/ \E va \in StoreAddrs : UserStore(va, 255)

SpecMm == InitMm /\ [][NextMm]_vars

\* Write-back: a task that maps file A through its read-write descriptor
\* and file B through its read-only one, by a page and a byte or by nearly
\* the whole usize range, touches and stores to the pages, and whose
\* mappings are written back at any moment; either file can be cleared
\* meanwhile.
SyncFds == {2, 4}
SyncLens == {PAGE_SIZE + 1, USIZE_MOD - PAGE_SIZE}
SyncOffsets == {0, PAGE_SIZE}

NextSync ==
    \/ \E fd \in SyncFds, len \in SyncLens, offset \in SyncOffsets : SysMmap(fd, len, offset)
    \/ \E va \in TouchedAddrs : HandlePageFault(va)
    \/ \E va \in StoreAddrs : UserStore(va, 255)
    \/ \E i \in 1..Len(file_mappings) : Sync(i)
    \/ \E f \in Files : FileClearSize(f)

SpecSync == InitMm /\ [][NextSync]_vars

(* ------------------------------- properties ---------------------------- *)
data_blocks == _data_blocks(size)

SeqToSet(q) == {q[k] : k \in 1..Len(q)}

\* The ids the tree resolves for the logical blocks of the file.
ResolvedIds == {get_block_id(Inode, dev, i).id : i \in 0..(data_blocks - 1)}

\* C1: increase_size called with exactly blocks_num_needed(new_size) fresh ids
\* returns normally with the iterator empty: it is never exhausted early, no
\* id is left over, and the ids taken since the inode was empty are exactly
\* the ids handed out, each as a data block or as an index block, not both.
C1_ExactPreallocation ==
    lastOp = "increase_size" =>
        /\ fault = "none"
        /\ left = 0
        /\ dataIds \cup indexIds = lifeBase..(nextId - 1)
        /\ dataIds \cap indexIds = {}
        /\ Cardinality(dataIds) = data_blocks

C1_Witness ==
    /\ lastOp = "increase_size" /\ fault = "none" /\ left = 0
    /\ data_blocks = MaxDataBlocks
    /\ indirect1 # 0 /\ indirect2 # 0 /\ indirect3 # 0

\* C2: clear_size returns, and the list it returns holds exactly the ids the
\* growths since size 0 consumed: no duplicates, no omissions, no extras.
C2_RoundTrip ==
    lastOp = "clear_size" =>
        /\ fault = "none"
        /\ SeqToSet(retv) = ownedBefore
        /\ Len(retv) = Cardinality(ownedBefore)

\* C3: the inode addresses exactly ceil(size / block_size) data blocks: every
\* logical index below data_blocks() resolves without a fault to an id a
\* growth took as a data block, the ids are pairwise distinct, none of them
\* is an id installed as an index block, and every data id is addressed.
C3_AddressesDataBlocks ==
    fault = "none" =>
        /\ \A i \in 0..(data_blocks - 1) :
              /\ get_block_id(Inode, dev, i).fault = "none"
              /\ get_block_id(Inode, dev, i).id \in dataIds
              /\ get_block_id(Inode, dev, i).id \notin indexIds
        /\ Cardinality(ResolvedIds) = data_blocks
        /\ ResolvedIds = dataIds

C3_Witness ==
    /\ fault = "none" /\ lastOp = "increase_size"
    /\ data_blocks > INDIRECT2_BOUND + INODE_INDIRECT1_COUNT
    /\ size % BLOCK_SZ = 1
    /\ Cardinality(ResolvedIds) = data_blocks

\* C9: after every completed operation a root pointer is 0 exactly when its
\* tier is unused, direct[i] is non-zero exactly for i < data_blocks(), and
\* after clear_size every root pointer field is 0.
C9_TierInvariant ==
    fault = "none" =>
        /\ (indirect1 # 0) <=> (data_blocks > INODE_DIRECT_COUNT)
        /\ (indirect2 # 0) <=> (data_blocks > INDIRECT1_BOUND)
        /\ (indirect3 # 0) <=> (data_blocks > INDIRECT2_BOUND)
        /\ \A i \in 0..(INODE_DIRECT_COUNT - 1) : (direct[i] # 0) <=> (i < data_blocks)
        /\ (indirect2 # 0 => indirect1 # 0) /\ (indirect3 # 0 => indirect2 # 0)
        /\ lastOp = "clear_size" =>
              /\ indirect1 = 0 /\ indirect2 = 0 /\ indirect3 = 0
              /\ \A i \in 0..(INODE_DIRECT_COUNT - 1) : direct[i] = 0

C9_Witness ==
    /\ fault = "none" /\ lastOp = "clear_size"
    /\ Len(retv) > INDIRECT2_BOUND
    /\ indirect1 = 0 /\ indirect2 = 0 /\ indirect3 = 0

\* C10: a clear_size that follows a completed clear_size returns an empty
\* list, leaves size at 0 and changes no inode field and no block.
C10_ClearIdempotent ==
    [][(clearsInRow >= 1 /\ fault = "none" /\ lastOp' = "clear_size")
          => /\ fault' = "none"
             /\ retv' = <<>>
             /\ size' = 0
             /\ UNCHANGED <<size, direct, indirect1, indirect2, indirect3, type_, dev>>]_vars

C10_Witness ==
    /\ clearsInRow = 2 /\ lastOp = "clear_size" /\ fault = "none"
    /\ retv = <<>> /\ nextId > INODE_DIRECT_COUNT

\* Byte p of the file as the tree of inode ino addresses it on device d.
FileByte(ino, d, p) == d[get_block_id(ino, d, p \div BLOCK_SZ).id][(p % BLOCK_SZ) + 1]

\* The bytes of the file outside [lo, hi) are the same on d1 and d2.
SameOutside(ino, d1, d2, lo, hi) ==
    \A p \in 0..(ino.size - 1) : (p < lo \/ p >= hi) => FileByte(ino, d1, p) = FileByte(ino, d2, p)

InodeUnchanged == UNCHANGED <<size, direct, indirect1, indirect2, indirect3, type_>>

\* C4: a write_at(o, b) with o + len(b) <= size returns len(b), a read_at of
\* the same range then returns len(b) and reproduces b, and the bytes of the
\* file outside [o, o + len(b)) keep their values.
C4_ReadAfterWrite ==
    [][(fault = "none" /\ lastOp' = "write_at" /\ ioOff' + Len(ioBuf') <= size)
          => /\ fault' = "none"
             /\ ret' = Len(ioBuf')
             /\ read_at(Inode, dev', ioOff', BlankBuf(Len(ioBuf'))).fault = "none"
             /\ read_at(Inode, dev', ioOff', BlankBuf(Len(ioBuf'))).ret = Len(ioBuf')
             /\ read_at(Inode, dev', ioOff', BlankBuf(Len(ioBuf'))).buf = ioBuf'
             /\ SameOutside(Inode, dev, dev', ioOff', ioOff' + Len(ioBuf'))]_vars

\* C5: read_at returns min(offset + len, size) - offset when offset < size,
\* and 0 when offset >= size or the buffer is empty; it resolves only logical
\* blocks below data_blocks(), does not panic, and changes no inode field
\* and no block.
C5_ReadCount ==
    [][(fault = "none" /\ lastOp' = "read_at")
          => /\ fault' = "none"
             /\ ret' = IF ioOff' < size /\ Len(ioBuf') > 0
                       THEN Min(ioOff' + Len(ioBuf'), size) - ioOff'
                       ELSE 0
             /\ \A i \in resolved' : i < data_blocks
             /\ InodeUnchanged /\ dev' = dev]_vars

C5_Witness ==
    /\ lastOp = "read_at" /\ fault = "none"
    /\ ioOff < size /\ ioOff + Len(ioBuf) > size
    /\ ret = size - ioOff /\ ret > 0
    /\ Cardinality(resolved) >= 2

\* C6: for every offset <= size and every buffer, write_at returns
\* min(offset + len, size) - offset, leaves size, the direct slots, the roots
\* and every index block unchanged, and changes only bytes of the file in
\* [offset, offset + count).
C6_WriteNeverGrows ==
    [][(fault = "none" /\ lastOp' = "write_at" /\ ioOff' <= size)
          => /\ fault' = "none"
             /\ ret' = Min(ioOff' + Len(ioBuf'), size) - ioOff'
             /\ InodeUnchanged
             /\ \A id \in indexIds : dev'[id] = dev[id]
             /\ SameOutside(Inode, dev, dev', ioOff', ioOff' + ret')]_vars

\* C7: write_at at offset = size with a non-empty buffer returns 0, does not
\* panic, and changes no inode field and no block.
C7_WriteAtSize ==
    [][(fault = "none" /\ lastOp' = "write_at" /\ ioOff' = size /\ Len(ioBuf') > 0)
          => /\ fault' = "none"
             /\ ret' = 0
             /\ InodeUnchanged /\ dev' = dev]_vars

CeilBlocks(s) == (s \div BLOCK_SZ) + (IF s % BLOCK_SZ = 0 THEN 0 ELSE 1)

\* The index blocks of the tree that addresses n data blocks, counted as the
\* groups that are started: a root per tier in use, a sub-block of indirect2
\* per started group of N leaves (there are N slots), a level-2 block per
\* started group of N*N leaves and a level-3 block per started group of N.
IndexBlocksFor(n) ==
    LET N == INODE_INDIRECT1_COUNT
        r2 == n - INDIRECT1_BOUND
        r3 == n - INDIRECT2_BOUND
    IN (IF n > DIRECT_BOUND THEN 1 ELSE 0)
       + (IF n > INDIRECT1_BOUND
          THEN 1 + Cardinality({g \in 0..(N - 1) : g * N < r2})
          ELSE 0)
       + (IF n > INDIRECT2_BOUND
          THEN 1 + Cardinality({g \in 0..(N - 1) : g * N * N < r3})
                 + Cardinality({g \in 0..(N * N - 1) : g * N < r3})
          ELSE 0)

\* C11: for every size s up to the largest addressable one, total_blocks(s)
\* is ceil(s / block_size) plus the index blocks of the tree for that many
\* data blocks; growing from 27 full blocks by one byte needs 2 more ids.
C11_TotalBlocksCount ==
    /\ (lastOp = "total_blocks" /\ acctNew <= MaxSize)
          => /\ fault = "none"
             /\ acctRet = CeilBlocks(acctNew) + IndexBlocksFor(CeilBlocks(acctNew))
    /\ (/\ lastOp = "blocks_num_needed"
        /\ acctSize = DIRECT_BOUND * BLOCK_SZ
        /\ acctNew = DIRECT_BOUND * BLOCK_SZ + 1)
          => (fault = "none" /\ acctRet = 2)

C11_Witness ==
    /\ lastOp = "total_blocks" /\ fault = "none"
    /\ acctNew = INDIRECT2_BOUND * BLOCK_SZ + INODE_INDIRECT2_COUNT * BLOCK_SZ + 1
    /\ acctRet = CeilBlocks(acctNew) + 3 + INODE_INDIRECT1_COUNT + 2
                     + INODE_INDIRECT1_COUNT + 1

\* C12: blocks_num_needed(new_size) returns total_blocks(new_size) minus
\* total_blocks(size) for every new_size >= size, the subtraction never
\* going below 0; for every new_size < size it aborts.
C12_BlocksNumNeeded ==
    lastOp = "blocks_num_needed" =>
        IF acctNew >= acctSize
        THEN /\ fault = "none"
             /\ total_blocks(acctNew) >= total_blocks(acctSize)
             /\ acctRet = total_blocks(acctNew) - total_blocks(acctSize)
        ELSE fault # "none"

\* C13: increase_size with a new_size smaller than the current size aborts
\* and does not leave the inode with a reduced size.
C13_ShrinkAborts ==
    (lastOp = "increase_size_with" /\ callNewSize < callSize)
        => (fault # "none" /\ size >= callSize)

\* C14: increase_size with fewer ids than blocks_num_needed(new_size) aborts
\* where the sequence runs out: it does not return, every supplied id has
\* been installed exactly once, as a data block or as an index block, and
\* nothing but supplied ids has been installed (no 0, no repeated id).
C14_UnderSupplyAborts ==
    (/\ lastOp = "increase_size_with" /\ callNewSize >= callSize
     /\ callIds < blocks_num_needed(callSize, callNewSize))
        => /\ fault = "unwrap"
           /\ left = 0
           /\ dataIds \cup indexIds = lifeBase..(nextId - 1)
           /\ dataIds \cap indexIds = {}
           /\ \A i \in 0..(INODE_DIRECT_COUNT - 1) :
                 direct[i] # 0 => direct[i] \in dataIds
           /\ Cardinality({i \in 0..(INODE_DIRECT_COUNT - 1) : direct[i] # 0})
                 = Cardinality({direct[i] : i \in 0..(INODE_DIRECT_COUNT - 1)} \ {0})
           /\ Cardinality(dataIds) < _data_blocks(callNewSize)

C14_Witness ==
    /\ lastOp = "increase_size_with" /\ fault = "unwrap"
    /\ callNewSize > callSize /\ callSize > 0
    /\ callIds = blocks_num_needed(callSize, callNewSize) - 1
    /\ callIds > INODE_INDIRECT3_COUNT
    /\ indirect3 # 0

\* C15: increase_size with more ids than blocks_num_needed(new_size) aborts;
\* it does not return with supplied ids left unconsumed.
C15_OverSupplyRejected ==
    (/\ lastOp = "increase_size_with" /\ callNewSize >= callSize
     /\ callIds > blocks_num_needed(callSize, callNewSize))
        => fault # "none"

\* C16: no engine operation ever holds two block-cache locks at once.
C16_SingleLockScope == locksPeak <= 1

\* C17: for a name of at most 27 bytes without a zero byte and any inode
\* number, the entry made by new and copied through its 32 bytes gives back
\* the name and the number, and every name byte after the name is zero.
C17_DirEntryRoundTrip ==
    (/\ lastOp = "name" /\ deCopied
     /\ Len(deArgName) <= NAME_LENGTH_LIMIT
     /\ \A k \in 1..Len(deArgName) : deArgName[k] # 0)
        => /\ fault = "none"
           /\ deOutName = deArgName
           /\ deOutIno = deArgIno
           /\ \A k \in (Len(deArgName) + 1)..(NAME_LENGTH_LIMIT + 1) : dirent.name[k] = 0

C17_Witness ==
    /\ lastOp = "name" /\ deCopied /\ fault = "none"
    /\ Len(deArgName) = NAME_LENGTH_LIMIT
    /\ deOutName = deArgName /\ deOutName[NAME_LENGTH_LIMIT] # 0
    /\ deOutIno = 2130706433

\* C18: new aborts for every name longer than 27 bytes, every entry it
\* returns has a zero byte in its name field, and name() on an entry made
\* by new finds its terminator inside the field.
C18_NewBoundsName ==
    /\ (lastOp = "new" /\ Len(deArgName) > NAME_LENGTH_LIMIT) => fault # "none"
    /\ (lastOp = "new" /\ fault = "none")
          => \E k \in 1..(NAME_LENGTH_LIMIT + 1) : dirent.name[k] = 0
    /\ lastOp = "name" => fault # "index"


\* Every recorded range with the file it maps.
AllRanges(mappings) ==
    UNION {{[file |-> mappings[k].file, range |-> mappings[k].ranges[j]] :
              j \in 1..Len(mappings[k].ranges)} : k \in 1..Len(mappings)}

\* The cases in which sys_mmap is to refuse the call.
MmapRefused(fd, len, offset) ==
    \/ len = 0
    \/ offset % PAGE_SIZE # 0
    \/ fd \notin 0..(Len(FdTable) - 1)
    \/ FdTable[fd + 1].kind = "None"
    \/ FdTable[fd + 1].kind # "OSInode"
    \/ offset >= fsize[FdTable[fd + 1].file]

\* C19: sys_mmap returns -1 and leaves the allocator and the mapping list
\* unchanged when len is 0, the offset is unaligned, the descriptor is out
\* of range, closed or not a regular file, or the offset is at or past the
\* file size; otherwise it returns the start of a range it has just
\* recorded, and that range is the only change to the recorded ranges.
C19_MmapRejectsOrRecordsOne ==
    [][lastOp' = "sys_mmap" =>
       \A fd \in MmapFds, len \in MmapLens, offset \in MmapOffsets :
         \A r \in {sys_mmap(cur_va, file_mappings, fsize, fd, len, offset)} :
         (IF overflowChecks /\ r.overflows
          THEN fault' = "overflow"
          ELSE /\ fault' = "none" /\ mmRet' = r.ret
               /\ cur_va' = r.cur_va /\ file_mappings' = r.file_mappings) =>
            IF MmapRefused(fd, len, offset)
            THEN /\ fault' = "none" /\ mmRet' = -1
                 /\ cur_va' = cur_va /\ file_mappings' = file_mappings
            ELSE /\ fault' = "none"
                 /\ NumRanges(file_mappings') = NumRanges(file_mappings) + 1
                 /\ \E n \in AllRanges(file_mappings') \ AllRanges(file_mappings) :
                      /\ n.range.start = mmRet'
                      /\ n.range.len = len
                      /\ n.range.offset = offset
                      /\ n.file = FdTable[fd + 1].file
                      /\ AllRanges(file_mappings') = AllRanges(file_mappings) \cup {n}]_vars

\* A call was refused after another had been accepted.
C19_Witness ==
    lastOp = "sys_mmap" /\ mmRet = -1 /\ NumRanges(file_mappings) >= 1 /\ fault = "none"

\* The pages of a range, and the mapped pages of each (file, file offset).
RangePages(r) == VirtAddr_floor(r.start)..VirtAddr_floor(r.start + r.len - 1)

MappedAt(mappings, table) ==
    UNION {{[file |-> n.file, offset |-> MapRange_file_offset(n.range, vpn), vpn |-> vpn] :
              vpn \in RangePages(n.range) \cap DOMAIN table} : n \in AllRanges(mappings)}

\* Mapped pages of one file at one file offset share a physical page, and
\* the frames allocated are as many as the (file, offset) pairs faulted on.
C20_SharingInv ==
    LET at == MappedAt(file_mappings, pt)
    IN /\ \A x \in at, y \in at :
            (x.file = y.file /\ x.offset = y.offset) <=> pt[x.vpn].ppn = pt[y.vpn].ppn
       /\ Len(mem) = Cardinality({[file |-> x.file, offset |-> x.offset] : x \in at})

\* C20: faults on pages of ranges of one file with the same file offset
\* resolve to the same physical page, one frame is allocated per distinct
\* (file, file offset), and a fault loads file content only into the frame
\* it allocates: frames that exist keep their bytes, so a byte stored
\* through one mapping is what the other mapping's page holds.
C20_PageSharing ==
    [][/\ C20_SharingInv'
       /\ (lastOp' = "handle_page_fault" /\ mmRet' = TRUE) =>
          \A va \in TouchedAddrs :
            HandlePageFault(va) =>
               /\ \A p \in 1..Len(mem) : mem'[p] = mem[p]
               /\ Len(mem') > Len(mem) =>
                    \E n \in AllRanges(file_mappings) :
                       /\ MapRange_contains(n.range, va)
                       /\ \A k \in 1..PAGE_SIZE :
                            LET o == MapRange_file_offset(n.range, VirtAddr_floor(va)) + k - 1
                            IN mem'[Len(mem')][k] =
                                  IF o < fsize[n.file] THEN FileContent(n.file, o) ELSE 0]_vars

\* A second mapping's first fault resolved to the page the first mapping
\* had already stored a byte in.
C20_Witness ==
    /\ lastOp = "handle_page_fault" /\ mmRet = TRUE
    /\ Cardinality(DOMAIN pt) = 2
    /\ \A v \in DOMAIN pt : pt[v].ppn = 1
    /\ Len(mem) = 1 /\ mem[1][1] = 255


\* The address lies in a recorded range [start, start + len).
InRecordedRange(mappings, va) ==
    \E n \in AllRanges(mappings) : n.range.start <= va /\ va < n.range.start + n.range.len

\* C21: handle_page_fault returns true only for an address inside a
\* recorded range whose page has no valid page-table entry; for a page that
\* is already mapped, or an address in no range, it returns false and
\* changes no mapping, frame, dirty set or page-table entry.
C21_FaultHandledOnlyInRange ==
    [][lastOp' = "handle_page_fault" =>
       \A va \in TouchedAddrs :
         HandlePageFault(va) =>
            /\ mmRet' = TRUE =>
                  /\ InRecordedRange(file_mappings, va)
                  /\ VirtAddr_floor(va) \notin DOMAIN pt
            /\ (VirtAddr_floor(va) \in DOMAIN pt \/ ~InRecordedRange(file_mappings, va)) =>
                  /\ mmRet' = FALSE
                  /\ fault' = "none"
                  /\ UNCHANGED <<file_mappings, pt, mem, cur_va>>]_vars

\* A fault was refused while a page of the read-only file is mapped.
C21_Witness ==
    /\ lastOp = "handle_page_fault" /\ mmRet = FALSE /\ fault = "none"
    /\ \E v \in DOMAIN pt : "W" \notin pt[v].perm


\* The index blocks on the way from the inode to logical block i, root first.
PathBlocks(ino, d, i) ==
    IF i < INODE_DIRECT_COUNT THEN <<>>
    ELSE IF i < INDIRECT1_BOUND THEN <<ino.indirect1>>
    ELSE IF i < INDIRECT2_BOUND
    THEN LET last == i - INDIRECT1_BOUND
         IN <<ino.indirect2, ReadWord(d, ino.indirect2, last \div INODE_INDIRECT1_COUNT)>>
    ELSE LET last == i - INDIRECT2_BOUND
             l1 == ReadWord(d, ino.indirect3, last \div INODE_INDIRECT2_COUNT)
         IN <<ino.indirect3, l1,
              ReadWord(d, l1, (last % INODE_INDIRECT2_COUNT) \div INODE_INDIRECT1_COUNT)>>

\* The order in which the increase_size of this step took its ids.
StepLog == increase_size(Inode, dev, size', FreshIds(blocks_num_needed(size, size'))).log

\* The logical block of the data id at position p of log l: the data blocks
\* there were, plus the data ids taken before p.
LogicalOf(l, p) == _data_blocks(size) + Cardinality({q \in 1..(p - 1) : l[q].kind = "data"})

\* The first logical block of the grown inode stored beneath index block x.
FirstBeneath(x) ==
    LET under == {i \in _data_blocks(size).._data_blocks(size') - 1 :
                     x \in SeqToSet(PathBlocks(Inode', dev', i))}
    IN IF under = {} THEN -1 ELSE CHOOSE i \in under : \A j \in under : i <= j

\* Ids are taken front to back, and the j-th id taken as a data block is
\* logical block (old data blocks + j) of the grown inode.
DataInOrder(l) ==
    /\ \A k \in 1..Len(l) : l[k].id = nextId + k - 1
    /\ \A p \in 1..Len(l) :
          l[p].kind = "data" =>
             get_block_id(Inode', dev', LogicalOf(l, p)) = [fault |-> "none", id |-> l[p].id]

\* An index block id is taken after every data id of a lower logical block
\* than the first one beneath it.
IndexAfterLower(l, k, first) ==
    \A p \in 1..Len(l) : (l[p].kind = "data" /\ LogicalOf(l, p) < first) => p < k

\* C22 as stated: ids are taken front to back, the j-th data id becomes
\* logical block (old data blocks + j), and every index block id is taken
\* after all data ids of lower logical blocks and immediately before the
\* first data id stored beneath it.
C22_ConsumptionOrder ==
    [][(lastOp' = "increase_size" /\ fault' = "none") =>
         \A l \in {StepLog} :
            /\ DataInOrder(l)
            /\ \A k \in 1..Len(l) :
                  l[k].kind = "index" =>
                     \A first \in {FirstBeneath(l[k].id)} :
                        /\ IndexAfterLower(l, k, first)
                        /\ k + 1 <= Len(l)
                        /\ l[k + 1].kind = "data"
                        /\ LogicalOf(l, k + 1) = first]_vars

\* C22 amended: as above, but between an index block id and the first data
\* id stored beneath it only the ids of the index blocks on the way down to
\* that data block are taken.
C22_ConsumptionOrderAmended ==
    [][(lastOp' = "increase_size" /\ fault' = "none") =>
         \A l \in {StepLog} :
            /\ DataInOrder(l)
            /\ \A k \in 1..Len(l) :
                  l[k].kind = "index" =>
                     \A first \in {FirstBeneath(l[k].id)} :
                        /\ IndexAfterLower(l, k, first)
                        /\ \E p \in (k + 1)..Len(l) :
                              /\ l[p].kind = "data"
                              /\ LogicalOf(l, p) = first
                              /\ \A q \in (k + 1)..(p - 1) :
                                    /\ l[q].kind = "index"
                                    /\ l[q].id \in SeqToSet(PathBlocks(Inode', dev', first))]_vars

\* A growth ended three blocks into the indirect3 tier, in the second leaf
\* block of its first subtree.
C22_Witness ==
    /\ lastOp = "increase_size" /\ fault = "none"
    /\ data_blocks = INDIRECT2_BOUND + INODE_INDIRECT1_COUNT + 1
    /\ indirect3 # 0


\* The inode as initialize leaves it, and the device as it was when the
\* inode was last empty: the ids handed out since then were never written.
EmptyInode ==
    [size |-> 0, direct |-> [k \in 0..(INODE_DIRECT_COUNT - 1) |-> 0],
     indirect1 |-> 0, indirect2 |-> 0, indirect3 |-> 0]

DeviceAtLifeBase == [b \in DOMAIN dev |-> IF b >= lifeBase THEN ZeroBlock ELSE dev[b]]

\* C23: growing the empty inode to S1 with ids A and then to S2 with ids B,
\* each of the exact needed length, returns and leaves the inode fields and
\* the blocks of the device as growing the empty inode to S2 in one call
\* with A ++ B does.
C23_GrowthPathIndependent ==
    lastOp = "increase_size_with" =>
        /\ fault = "none"
        /\ \A r \in {increase_size(EmptyInode, DeviceAtLifeBase, size,
                                    [k \in 1..(nextId - lifeBase) |-> lifeBase + k - 1])} :
              /\ r.fault = "none"
              /\ r.ids = <<>>
              /\ r.size = size /\ r.direct = direct
              /\ r.indirect1 = indirect1 /\ r.indirect2 = indirect2
              /\ r.indirect3 = indirect3
              /\ r.dev = dev

\* The second growth started one block into a leaf block of the indirect3
\* tree and filled the tree.
C23_Witness ==
    /\ lastOp = "increase_size_with" /\ fault = "none"
    /\ _data_blocks(callSize) = INDIRECT2_BOUND + INODE_INDIRECT1_COUNT + 1
    /\ data_blocks = MaxDataBlocks


\* C24: the assertion inside clear_size holds for every inode growth was
\* able to build: clear_size never aborts on it.
C24_ClearSizeAssertHolds == lastOp = "clear_size" => fault # "assert"


\* C25: data_blocks() is ceil(size / block_size) for every value of the u32
\* size, also within block_size - 1 of the top of the range: it neither
\* wraps to a smaller count nor aborts.
C25_DataBlocksIsCeil ==
    lastOp = "data_blocks" => (fault = "none" /\ acctRet = CeilBlocks(acctNew))


\* C26: assert!(file_offset < file_size) in handle_page_fault holds for
\* every fault it handles, also on pages of a range that lie wholly beyond
\* the end of the file.
C26_FaultAssertHolds == lastOp = "handle_page_fault" => fault # "assert"


\* No two recorded ranges share a virtual page (and so no address).
RangesDisjoint(mappings) ==
    \A n1 \in AllRanges(mappings), n2 \in AllRanges(mappings) :
        n1 # n2 => RangePages(n1.range) \cap RangePages(n2.range) = {}

\* C27: after any sequence of successful sys_mmap calls every recorded range
\* starts at a page-aligned address, each call's range starts above every
\* range recorded before it, and no two ranges [start, start + len) share an
\* address or a virtual page.
C27_RangesNeverIntersect ==
    [][(lastOp' = "sys_mmap" /\ fault' = "none" /\ mmRet' # -1) =>
          /\ mmRet' % PAGE_SIZE = 0
          /\ \A n \in AllRanges(file_mappings) : n.range.start < mmRet'
          /\ NumRanges(file_mappings') = Cardinality(AllRanges(file_mappings'))
          /\ RangesDisjoint(file_mappings')]_vars

\* The bookkeeping of one FileMapping: every dirty offset has its page, and
\* the frames owned are as many as the entries of the map.
MappingBookkeeping(m) ==
    /\ m.dirty_parts \subseteq DOMAIN m.map
    /\ Len(m.frames) = Cardinality(DOMAIN m.map)

\* The offsets that entered the dirty set of mapping k in a step.
NewlyDirty(before, after, k) ==
    after[k].dirty_parts \ (IF k <= Len(before) THEN before[k].dirty_parts ELSE {})

\* C28: in every state every offset in dirty_parts has an entry in the map
\* and the frames owned are as many as the map's entries; an offset enters
\* dirty_parts only in a page fault, on a page of a range with write
\* permission whose file offset it is; and sync fails no lookup, makes one
\* write per dirty offset below the file size and none for the others, each
\* of at most min(PAGE_SIZE, file_size - offset) bytes, and leaves the length
\* of the file alone.
C28_WriteBackBookkeeping ==
    [][/\ \A k \in 1..Len(file_mappings') : MappingBookkeeping(file_mappings'[k])
       /\ \A k \in 1..Len(file_mappings') :
            \A o \in NewlyDirty(file_mappings, file_mappings', k) :
               /\ lastOp' = "handle_page_fault"
               /\ \E vpn \in DOMAIN pt' \ DOMAIN pt :
                    \E j \in 1..Len(file_mappings[k].ranges) :
                       /\ "W" \in file_mappings[k].ranges[j].perm
                       /\ vpn \in RangePages(file_mappings[k].ranges[j])
                       /\ MapRange_file_offset(file_mappings[k].ranges[j], vpn) = o
       /\ lastOp' = "sync" =>
            /\ fault' = "none"
            /\ \A w \in synced' :
                  /\ w.offset < fsize[w.file]
                  /\ 0 < w.len
                  /\ w.len <= Min(PAGE_SIZE, fsize[w.file] - w.offset)
            /\ \E i \in 1..Len(file_mappings) :
                  /\ \A w \in synced' : w.file = file_mappings[i].file
                  /\ {w.offset : w \in synced'} =
                        {o \in file_mappings[i].dirty_parts : o < fsize[file_mappings[i].file]}
                  /\ Cardinality(synced') = Cardinality({w.offset : w \in synced'})
            /\ \A f \in Files : Len(fdata'[f]) = fsize[f]]_vars

\* A mapping of file A from its second page on was written back: the dirty
\* page reaches beyond the end of the file, and the write stopped at the end.
C28_Witness ==
    /\ lastOp = "sync" /\ fault = "none"
    /\ \E w \in synced :
          /\ w.offset = PAGE_SIZE
          /\ w.len = fsize[w.file] - w.offset
          /\ w.len < PAGE_SIZE
          /\ \E n \in AllRanges(file_mappings) :
                n.file = w.file /\ n.range.offset = PAGE_SIZE /\ n.range.len > PAGE_SIZE

====
